---------------------------- MODULE Spec2Model ----------------------------
(***************************************************************************)
(* Model of the WAMP message layer (autobahn/wamp/message.py): the three   *)
(* primitive validators, the per-variant parse / marshal / constructor     *)
(* code of the 21 message classes, and the per-instance serialization      *)
(* cache of the Message base class.                                        *)
(*                                                                         *)
(* Python values are modelled as tagged pairs <<tag, payload>>:            *)
(*   <<"int", <<hi, lo>>>>   the integer hi * 2^27 + lo, 0 <= lo < 2^27     *)
(*                          (two limbs, so that 2^53 and 2^53 + 1 are      *)
(*                          distinct, exactly represented values)          *)
(*   <<"str", s>>, <<"bool", b>>, <<"float", s>>, <<"none", "None">>        *)
(*   <<"list", seq>>         a Python list                                 *)
(*   <<"dict", f>>           a Python dict: a function from key values to  *)
(*                          values                                         *)
(* str and unicode are both "str": every type test of the source accepts   *)
(* or rejects the two together.                                            *)
(***************************************************************************)
EXTENDS Integers, Sequences, FiniteSets, TLC

VARIABLES
  pc,        \* codec: position of the driver ("start", "validated", "parsed", ...)
  origin,    \* codec: "wire" (message came from parse) or "ctor" (built by a constructor)
  wmsg,      \* codec: the wire array handed to parse
  res,       \* codec: outcome of parse(wmsg) or of the constructor call
  out,       \* codec: wire array returned by marshal()
  res2,      \* codec: outcome of parse(out)
  vop,       \* validators: which validator ran
  vin,       \* validators: its argument
  vres,      \* validators: its outcome
  inst,      \* cache: the message instances, each with its fields and its _serialized
  last,      \* cache: the last call made on an instance and what it did
  first,     \* cache: per instance, the bytes the first serialize(s) returned since
             \*        construction or the last uncache()
  nMarshal,  \* cache: per instance and serializer, how often serializer.serialize(marshal())
             \*        was evaluated
  ops,       \* cache: number of calls made so far
  frame,     \* cache: per concurrent caller, its position inside serialize()
  touched,   \* cache: per instance, whether an attribute was assigned since construction
  snap,      \* cache: per instance and serializer, the fields the instance had when the
             \*        first serialize(s) since construction or the last uncache() ran
  factory,   \* fuzzing: the FuzzingServerFactory with its agents and cases indexes
  logged,    \* fuzzing: per (agent, case), the record of the most recent logCase
  got,       \* fuzzing: the last getCase call and what it returned, until the next logCase
  clock      \* fuzzing: the time caseStarted is read from

codecVars == <<pc, origin, wmsg, res, out, res2, vop, vin, vres>>
cacheVars == <<inst, last, first, nMarshal, ops, frame, touched, snap>>
fuzzVars == <<factory, logged, got, clock>>
vars ==
  <<pc, origin, wmsg, res, out, res2, vop, vin, vres, inst, last, first, nMarshal, ops, frame,
    touched, snap, factory, logged, got, clock>>

----------------------------------------------------------------------------
(* Python values *)

Limb == 2^27

PyIntHL(hi, lo) == <<"int", <<hi, lo>>>>
PyInt(n) == <<"int", <<0, n>>>>
PyStr(s) == <<"str", s>>
PyBool(b) == <<"bool", b>>
PyFloat(s) == <<"float", s>>
PyNone == <<"none", "None">>
PyList(s) == <<"list", s>>
PyDict(f) == <<"dict", f>>

EmptyMap == [k \in {} |-> PyNone]
EmptyDict == PyDict(EmptyMap)
EmptyList == PyList(<<>>)

type(x) == x[1]
val(x) == x[2]

IsString(x) == type(x) = "str"
IsInteger(x) == type(x) = "int"

\* a < b on two-limb integers
IntLess(a, b) == \/ val(a)[1] < val(b)[1]
                 \/ (val(a)[1] = val(b)[1] /\ val(a)[2] < val(b)[2])

has_key(d, k) == PyStr(k) \in DOMAIN val(d)
get(d, k) == val(d)[PyStr(k)]

\* Python truth value of x (if x: ...)
Truthy(x) ==
  CASE type(x) = "none" -> FALSE
    [] type(x) = "bool" -> val(x)
    [] type(x) = "int" -> val(x) # <<0, 0>>
    [] type(x) = "float" -> val(x) # "0.0"
    [] type(x) = "str" -> val(x) # ""
    [] type(x) = "list" -> Len(val(x)) # 0
    [] type(x) = "dict" -> DOMAIN val(x) # {}

\* d[k] = v on a dict under construction, done only when cond holds
setitem(d, k, cond, v) == IF cond THEN PyDict((PyStr(k) :> v) @@ val(d)) ELSE d

----------------------------------------------------------------------------
(* Outcomes: a returned value or a raised exception *)

VOk(v) == [kind |-> "ok", val |-> v]
VRaise(e) == [kind |-> e, val |-> PyNone]

NoMsg == [cls |-> "None", f |-> [none |-> PyNone]]
Ok(m) == [kind |-> "ok", msg |-> m, at |-> -1, key |-> ""]
\* an exception raised by the check of the wire element at source index at
\* (0: the length check) or, when key is not empty, of the entry under key
\* of the mapping at that index; Raise is an exception from anywhere else
RaiseAt(e, at, key) == [kind |-> e, msg |-> NoMsg, at |-> at, key |-> key]
Raise(e) == RaiseAt(e, -1, "")

----------------------------------------------------------------------------
(* Primitive validators *)

MAX_ID == PyIntHL(2^26, 0)   \* 9007199254740992 = 2^53

\* a URI check that lets the empty string through
check_or_raise_uri_AnyString(value) ==
  IF ~IsString(value) THEN VRaise("ProtocolError") ELSE VOk(value)

check_or_raise_uri(value) ==
  IF ~IsString(value) THEN VRaise("ProtocolError")
  ELSE IF val(value) = "" THEN VRaise("ProtocolError")
  ELSE VOk(value)

\* an ID check whose upper bound excludes 2^53 itself
check_or_raise_id_Below(value) ==
  IF ~IsInteger(value) THEN VRaise("ProtocolError")
  ELSE IF IntLess(value, PyInt(0)) \/ ~IntLess(value, MAX_ID) THEN VRaise("ProtocolError")
  ELSE VOk(value)

check_or_raise_id(value) ==
  IF ~IsInteger(value) THEN VRaise("ProtocolError")
  ELSE IF IntLess(value, PyInt(0)) \/ IntLess(MAX_ID, value) THEN VRaise("ProtocolError")
  ELSE VOk(value)

\* The message of the key check has three replacement fields and two
\* arguments: str.format raises IndexError before ProtocolError is built.
check_or_raise_extra(value) ==
  IF type(value) # "dict" THEN VRaise("ProtocolError")
  ELSE IF \E k \in DOMAIN val(value) : ~IsString(k) THEN VRaise("IndexError")
  ELSE VOk(value)

----------------------------------------------------------------------------
(* Message classes.  A message object is [cls |-> class name, f |-> record *)
(* of its attributes].  At(wmsg, k) is the source's wmsg[k].               *)

PE == "ProtocolError"

At(w, k) == w[k + 1]
Failed(r) == r.kind # "ok"

MESSAGE_TYPE(cls) ==
  CASE cls = "Hello" -> 1
    [] cls = "Goodbye" -> 2
    [] cls = "Heartbeat" -> 3
    [] cls = "Error" -> 4
    [] cls = "Publish" -> 16
    [] cls = "Published" -> 17
    [] cls = "Subscribe" -> 32
    [] cls = "Subscribed" -> 33
    [] cls = "Unsubscribe" -> 34
    [] cls = "Unsubscribed" -> 35
    [] cls = "Event" -> 36
    [] cls = "Call" -> 48
    [] cls = "Cancel" -> 49
    [] cls = "Result" -> 50
    [] cls = "Register" -> 64
    [] cls = "Registered" -> 65
    [] cls = "Unregister" -> 66
    [] cls = "Unregistered" -> 67
    [] cls = "Invocation" -> 68
    [] cls = "Interrupt" -> 69
    [] cls = "Yield" -> 70

Code(cls) == PyInt(MESSAGE_TYPE(cls))

\* the optional trailing element at source index k, None when absent
Trailing(w, k) == IF Len(w) > k THEN At(w, k) ELSE PyNone

(* ---- Error ---- *)

Error_init(session, request_type, request, error, args, kwargs) ==
  Ok([cls |-> "Error",
      f |-> [session |-> session, request_type |-> request_type, request |-> request,
             error |-> error, args |-> args, kwargs |-> kwargs]])

\* a parse of Error that takes any integer as request_type
Error_parse_AnyType(w) ==
  IF Len(w) \notin {6, 7, 8} THEN RaiseAt(PE, 0, "")
  ELSE IF Failed(check_or_raise_id(At(w, 1))) THEN RaiseAt(check_or_raise_id(At(w, 1)).kind, 1, "")
  ELSE IF ~IsInteger(At(w, 2)) THEN RaiseAt(PE, 2, "")
  ELSE IF Failed(check_or_raise_id(At(w, 3))) THEN RaiseAt(check_or_raise_id(At(w, 3)).kind, 3, "")
  ELSE IF Failed(check_or_raise_extra(At(w, 4))) THEN RaiseAt(check_or_raise_extra(At(w, 4)).kind, 4, "")
  ELSE IF Failed(check_or_raise_uri(At(w, 5))) THEN RaiseAt(check_or_raise_uri(At(w, 5)).kind, 5, "")
  ELSE IF Len(w) > 6 /\ type(At(w, 6)) # "list" THEN RaiseAt(PE, 6, "")
  ELSE IF Len(w) > 7 /\ type(At(w, 7)) # "dict" THEN RaiseAt(PE, 7, "")
  ELSE Error_init(At(w, 1), At(w, 2), At(w, 3), At(w, 5), Trailing(w, 6), Trailing(w, 7))

Error_parse(w) ==
  IF Len(w) \notin {6, 7, 8} THEN RaiseAt(PE, 0, "")
  ELSE IF Failed(check_or_raise_id(At(w, 1))) THEN RaiseAt(check_or_raise_id(At(w, 1)).kind, 1, "")
  ELSE IF ~IsInteger(At(w, 2)) THEN RaiseAt(PE, 2, "")
  ELSE IF At(w, 2) \notin {Code("Subscribe"), Code("Unsubscribe"), Code("Publish"),
                           Code("Register"), Code("Unregister"), Code("Call"),
                           Code("Invocation")} THEN RaiseAt(PE, 2, "")
  ELSE IF Failed(check_or_raise_id(At(w, 3))) THEN RaiseAt(check_or_raise_id(At(w, 3)).kind, 3, "")
  ELSE IF Failed(check_or_raise_extra(At(w, 4))) THEN RaiseAt(check_or_raise_extra(At(w, 4)).kind, 4, "")
  ELSE IF Failed(check_or_raise_uri(At(w, 5))) THEN RaiseAt(check_or_raise_uri(At(w, 5)).kind, 5, "")
  ELSE IF Len(w) > 6 /\ type(At(w, 6)) # "list" THEN RaiseAt(PE, 6, "")
  ELSE IF Len(w) > 7 /\ type(At(w, 7)) # "dict" THEN RaiseAt(PE, 7, "")
  ELSE Error_init(At(w, 1), At(w, 2), At(w, 3), At(w, 5), Trailing(w, 6), Trailing(w, 7))

Error_marshal(m) ==
  LET details == EmptyDict IN
  IF Truthy(m.kwargs)
    THEN <<Code("Error"), m.session, m.request_type, m.request, details, m.error, m.args, m.kwargs>>
  ELSE IF Truthy(m.args)
    THEN <<Code("Error"), m.session, m.request_type, m.request, details, m.error, m.args>>
  ELSE <<Code("Error"), m.session, m.request_type, m.request, details, m.error>>

(* ---- Subscribe ---- *)

MATCH_EXACT == PyStr("exact")
MATCH_PREFIX == PyStr("prefix")
MATCH_WILDCARD == PyStr("wildcard")

Subscribe_init(session, request, topic, match) ==
  Ok([cls |-> "Subscribe",
      f |-> [session |-> session, request |-> request, topic |-> topic, match |-> match]])

Subscribe_parse(w) ==
  IF Len(w) # 5 THEN RaiseAt(PE, 0, "")
  ELSE IF Failed(check_or_raise_id(At(w, 1))) THEN RaiseAt(check_or_raise_id(At(w, 1)).kind, 1, "")
  ELSE IF Failed(check_or_raise_id(At(w, 2))) THEN RaiseAt(check_or_raise_id(At(w, 2)).kind, 2, "")
  ELSE IF Failed(check_or_raise_extra(At(w, 3))) THEN RaiseAt(check_or_raise_extra(At(w, 3)).kind, 3, "")
  ELSE IF Failed(check_or_raise_uri(At(w, 4))) THEN RaiseAt(check_or_raise_uri(At(w, 4)).kind, 4, "")
  ELSE LET options == At(w, 3) IN
    IF has_key(options, "match") /\ ~IsString(get(options, "match")) THEN RaiseAt(PE, 3, "match")
    ELSE IF has_key(options, "match")
            /\ get(options, "match") \notin {MATCH_EXACT, MATCH_PREFIX, MATCH_WILDCARD}
      THEN RaiseAt(PE, 3, "match")
    ELSE Subscribe_init(At(w, 1), At(w, 2), At(w, 4),
                        IF has_key(options, "match") THEN get(options, "match") ELSE MATCH_EXACT)

\* a marshal of Subscribe that emits 'match' whenever it is set
Subscribe_marshal_AnyMatch(m) ==
  LET options == setitem(EmptyDict, "match", Truthy(m.match), m.match) IN
  <<Code("Subscribe"), m.session, m.request, options, m.topic>>

Subscribe_marshal(m) ==
  LET options == setitem(EmptyDict, "match", Truthy(m.match) /\ m.match # MATCH_EXACT, m.match) IN
  <<Code("Subscribe"), m.session, m.request, options, m.topic>>

(* ---- Subscribed ---- *)

Subscribed_init(session, request, subscription) ==
  Ok([cls |-> "Subscribed",
      f |-> [session |-> session, request |-> request, subscription |-> subscription]])

Subscribed_parse(w) ==
  IF Len(w) # 4 THEN RaiseAt(PE, 0, "")
  ELSE IF Failed(check_or_raise_id(At(w, 1))) THEN RaiseAt(check_or_raise_id(At(w, 1)).kind, 1, "")
  ELSE IF Failed(check_or_raise_id(At(w, 2))) THEN RaiseAt(check_or_raise_id(At(w, 2)).kind, 2, "")
  ELSE IF Failed(check_or_raise_id(At(w, 3))) THEN RaiseAt(check_or_raise_id(At(w, 3)).kind, 3, "")
  ELSE Subscribed_init(At(w, 1), At(w, 2), At(w, 3))

Subscribed_marshal(m) == <<Code("Subscribed"), m.session, m.request, m.subscription>>

(* ---- Unsubscribe ---- *)

\* __init__(self, request, subscription) reads the name `session`, which is
\* neither a parameter nor a global: every call that reaches the body fails
\* with NameError, so no Unsubscribe instance exists.
Unsubscribe_init(request, subscription) == Raise("NameError")

\* parse passes three arguments to the two-parameter constructor: TypeError
\* is raised by the call itself, before the constructor body runs.
Unsubscribe_parse(w) ==
  IF Len(w) # 4 THEN RaiseAt(PE, 0, "")
  ELSE IF Failed(check_or_raise_id(At(w, 1))) THEN RaiseAt(check_or_raise_id(At(w, 1)).kind, 1, "")
  ELSE IF Failed(check_or_raise_id(At(w, 2))) THEN RaiseAt(check_or_raise_id(At(w, 2)).kind, 2, "")
  ELSE IF Failed(check_or_raise_id(At(w, 3))) THEN RaiseAt(check_or_raise_id(At(w, 3)).kind, 3, "")
  ELSE Raise("TypeError")

Unsubscribe_marshal(m) == <<Code("Unsubscribe"), m.session, m.request, m.subscription>>

(* ---- Unsubscribed ---- *)

Unsubscribed_init(session, request) ==
  Ok([cls |-> "Unsubscribed", f |-> [session |-> session, request |-> request]])

Unsubscribed_parse(w) ==
  IF Len(w) # 3 THEN RaiseAt(PE, 0, "")
  ELSE IF Failed(check_or_raise_id(At(w, 1))) THEN RaiseAt(check_or_raise_id(At(w, 1)).kind, 1, "")
  ELSE IF Failed(check_or_raise_id(At(w, 2))) THEN RaiseAt(check_or_raise_id(At(w, 2)).kind, 2, "")
  ELSE Unsubscribed_init(At(w, 1), At(w, 2))

Unsubscribed_marshal(m) == <<Code("Unsubscribed"), m.session, m.request>>

(* ---- Publish ---- *)

\* every element of the list l has an integer type
AllIntegers(l) == \A i \in 1..Len(val(l)) : IsInteger(val(l)[i])

Publish_init(session, request, topic, args, kwargs, acknowledge, excludeMe, exclude, eligible, discloseMe) ==
  IF Truthy(kwargs) /\ ~Truthy(args) THEN Raise("AssertionError")
  ELSE Ok([cls |-> "Publish",
           f |-> [session |-> session, request |-> request, topic |-> topic, args |-> args,
                  kwargs |-> kwargs, acknowledge |-> acknowledge, excludeMe |-> excludeMe,
                  exclude |-> exclude, eligible |-> eligible, discloseMe |-> discloseMe]])

\* the option named k of options, None when the key is absent
Option(options, k) == IF has_key(options, k) THEN get(options, k) ELSE PyNone

\* The message of the 'discloseme' type check formats option_identifyMe, a
\* name that is never bound: NameError.
Publish_parse(w) ==
  IF Len(w) \notin {5, 6, 7} THEN RaiseAt(PE, 0, "")
  ELSE IF Failed(check_or_raise_id(At(w, 1))) THEN RaiseAt(check_or_raise_id(At(w, 1)).kind, 1, "")
  ELSE IF Failed(check_or_raise_id(At(w, 2))) THEN RaiseAt(check_or_raise_id(At(w, 2)).kind, 2, "")
  ELSE IF Failed(check_or_raise_extra(At(w, 3))) THEN RaiseAt(check_or_raise_extra(At(w, 3)).kind, 3, "")
  ELSE IF Failed(check_or_raise_uri(At(w, 4))) THEN RaiseAt(check_or_raise_uri(At(w, 4)).kind, 4, "")
  ELSE IF Len(w) > 5 /\ type(At(w, 5)) # "list" THEN RaiseAt(PE, 5, "")
  ELSE IF Len(w) > 6 /\ type(At(w, 6)) # "dict" THEN RaiseAt(PE, 6, "")
  ELSE LET options == At(w, 3) IN
    IF has_key(options, "acknowledge") /\ type(get(options, "acknowledge")) # "bool" THEN RaiseAt(PE, 3, "acknowledge")
    ELSE IF has_key(options, "excludeme") /\ type(get(options, "excludeme")) # "bool" THEN RaiseAt(PE, 3, "excludeme")
    ELSE IF has_key(options, "exclude") /\ type(get(options, "exclude")) # "list" THEN RaiseAt(PE, 3, "exclude")
    ELSE IF has_key(options, "exclude") /\ ~AllIntegers(get(options, "exclude")) THEN RaiseAt(PE, 3, "exclude")
    ELSE IF has_key(options, "eligible") /\ type(get(options, "eligible")) # "list" THEN RaiseAt(PE, 3, "eligible")
    ELSE IF has_key(options, "eligible") /\ ~AllIntegers(get(options, "eligible")) THEN RaiseAt(PE, 3, "eligible")
    ELSE IF has_key(options, "discloseme") /\ type(get(options, "discloseme")) # "bool"
      THEN RaiseAt("NameError", 3, "discloseme")
    ELSE Publish_init(At(w, 1), At(w, 2), At(w, 4), Trailing(w, 5), Trailing(w, 6),
                      Option(options, "acknowledge"), Option(options, "excludeme"),
                      Option(options, "exclude"), Option(options, "eligible"),
                      Option(options, "discloseme"))

Publish_marshal(m) ==
  LET o1 == setitem(EmptyDict, "acknowledge", m.acknowledge # PyNone, m.acknowledge)
      o2 == setitem(o1, "excludeme", m.excludeMe # PyNone, m.excludeMe)
      o3 == setitem(o2, "exclude", m.exclude # PyNone, m.exclude)
      o4 == setitem(o3, "eligible", m.eligible # PyNone, m.eligible)
      options == setitem(o4, "discloseme", m.discloseMe # PyNone, m.discloseMe)
  IN
  IF Truthy(m.kwargs)
    THEN <<Code("Publish"), m.session, m.request, options, m.topic, m.args, m.kwargs>>
  ELSE IF Truthy(m.args)
    THEN <<Code("Publish"), m.session, m.request, options, m.topic, m.args>>
  ELSE <<Code("Publish"), m.session, m.request, options, m.topic>>

(* ---- Published ---- *)

Published_init(session, request, publication) ==
  Ok([cls |-> "Published",
      f |-> [session |-> session, request |-> request, publication |-> publication]])

Published_parse(w) ==
  IF Len(w) # 4 THEN RaiseAt(PE, 0, "")
  ELSE IF Failed(check_or_raise_id(At(w, 1))) THEN RaiseAt(check_or_raise_id(At(w, 1)).kind, 1, "")
  ELSE IF Failed(check_or_raise_id(At(w, 2))) THEN RaiseAt(check_or_raise_id(At(w, 2)).kind, 2, "")
  ELSE IF Failed(check_or_raise_id(At(w, 3))) THEN RaiseAt(check_or_raise_id(At(w, 3)).kind, 3, "")
  ELSE Published_init(At(w, 1), At(w, 2), At(w, 3))

Published_marshal(m) == <<Code("Published"), m.session, m.request, m.publication>>

(* ---- Event ---- *)

Event_init(session, subscription, publication, args, kwargs, publisher) ==
  IF Truthy(kwargs) /\ ~Truthy(args) THEN Raise("AssertionError")
  ELSE Ok([cls |-> "Event",
           f |-> [session |-> session, subscription |-> subscription,
                  publication |-> publication, args |-> args, kwargs |-> kwargs,
                  publisher |-> publisher]])

Event_parse(w) ==
  IF Len(w) \notin {5, 6, 7} THEN RaiseAt(PE, 0, "")
  ELSE IF Failed(check_or_raise_id(At(w, 1))) THEN RaiseAt(check_or_raise_id(At(w, 1)).kind, 1, "")
  ELSE IF Failed(check_or_raise_id(At(w, 2))) THEN RaiseAt(check_or_raise_id(At(w, 2)).kind, 2, "")
  ELSE IF Failed(check_or_raise_id(At(w, 3))) THEN RaiseAt(check_or_raise_id(At(w, 3)).kind, 3, "")
  ELSE IF Failed(check_or_raise_extra(At(w, 4))) THEN RaiseAt(check_or_raise_extra(At(w, 4)).kind, 4, "")
  ELSE IF Len(w) > 5 /\ type(At(w, 5)) # "list" THEN RaiseAt(PE, 5, "")
  ELSE IF Len(w) > 6 /\ type(At(w, 6)) # "dict" THEN RaiseAt(PE, 6, "")
  ELSE LET details == At(w, 4) IN
    IF has_key(details, "publisher") /\ ~IsInteger(get(details, "publisher")) THEN RaiseAt(PE, 4, "publisher")
    ELSE Event_init(At(w, 1), At(w, 2), At(w, 3), Trailing(w, 5), Trailing(w, 6),
                    Option(details, "publisher"))

Event_marshal(m) ==
  LET details == setitem(EmptyDict, "publisher", m.publisher # PyNone, m.publisher) IN
  IF Truthy(m.kwargs)
    THEN <<Code("Event"), m.session, m.subscription, m.publication, details, m.args, m.kwargs>>
  ELSE IF Truthy(m.args)
    THEN <<Code("Event"), m.session, m.subscription, m.publication, details, m.args>>
  ELSE <<Code("Event"), m.session, m.subscription, m.publication, details>>

(* ---- Register ---- *)

Register_init(session, request, procedure, pkeys) ==
  Ok([cls |-> "Register",
      f |-> [session |-> session, request |-> request, procedure |-> procedure,
             pkeys |-> pkeys]])

Register_parse(w) ==
  IF Len(w) # 5 THEN RaiseAt(PE, 0, "")
  ELSE IF Failed(check_or_raise_id(At(w, 1))) THEN RaiseAt(check_or_raise_id(At(w, 1)).kind, 1, "")
  ELSE IF Failed(check_or_raise_id(At(w, 2))) THEN RaiseAt(check_or_raise_id(At(w, 2)).kind, 2, "")
  ELSE IF Failed(check_or_raise_extra(At(w, 3))) THEN RaiseAt(check_or_raise_extra(At(w, 3)).kind, 3, "")
  ELSE IF Failed(check_or_raise_uri(At(w, 4))) THEN RaiseAt(check_or_raise_uri(At(w, 4)).kind, 4, "")
  ELSE LET options == At(w, 3) IN
    IF has_key(options, "pkeys") /\ type(get(options, "pkeys")) # "list" THEN RaiseAt(PE, 3, "pkeys")
    ELSE IF has_key(options, "pkeys") /\ ~AllIntegers(get(options, "pkeys")) THEN RaiseAt(PE, 3, "pkeys")
    ELSE Register_init(At(w, 1), At(w, 2), At(w, 4), Option(options, "pkeys"))

Register_marshal(m) ==
  LET options == setitem(EmptyDict, "pkeys", m.pkeys # PyNone, m.pkeys) IN
  <<Code("Register"), m.session, m.request, options, m.procedure>>

(* ---- Registered ---- *)

Registered_init(session, request, registration) ==
  Ok([cls |-> "Registered",
      f |-> [session |-> session, request |-> request, registration |-> registration]])

Registered_parse(w) ==
  IF Len(w) # 4 THEN RaiseAt(PE, 0, "")
  ELSE IF Failed(check_or_raise_id(At(w, 1))) THEN RaiseAt(check_or_raise_id(At(w, 1)).kind, 1, "")
  ELSE IF Failed(check_or_raise_id(At(w, 2))) THEN RaiseAt(check_or_raise_id(At(w, 2)).kind, 2, "")
  ELSE IF Failed(check_or_raise_id(At(w, 3))) THEN RaiseAt(check_or_raise_id(At(w, 3)).kind, 3, "")
  ELSE Registered_init(At(w, 1), At(w, 2), At(w, 3))

Registered_marshal(m) == <<Code("Registered"), m.session, m.request, m.registration>>

(* ---- Unregister ---- *)

Unregister_init(session, request, registration) ==
  Ok([cls |-> "Unregister",
      f |-> [session |-> session, request |-> request, registration |-> registration]])

Unregister_parse(w) ==
  IF Len(w) # 4 THEN RaiseAt(PE, 0, "")
  ELSE IF Failed(check_or_raise_id(At(w, 1))) THEN RaiseAt(check_or_raise_id(At(w, 1)).kind, 1, "")
  ELSE IF Failed(check_or_raise_id(At(w, 2))) THEN RaiseAt(check_or_raise_id(At(w, 2)).kind, 2, "")
  ELSE IF Failed(check_or_raise_id(At(w, 3))) THEN RaiseAt(check_or_raise_id(At(w, 3)).kind, 3, "")
  ELSE Unregister_init(At(w, 1), At(w, 2), At(w, 3))

Unregister_marshal(m) == <<Code("Unregister"), m.session, m.request, m.registration>>

(* ---- Unregistered ---- *)

Unregistered_init(session, request) ==
  Ok([cls |-> "Unregistered", f |-> [session |-> session, request |-> request]])

\* parse passes the request alone to the two-parameter constructor:
\* TypeError is raised by the call.
Unregistered_parse(w) ==
  IF Len(w) # 3 THEN RaiseAt(PE, 0, "")
  ELSE IF Failed(check_or_raise_id(At(w, 1))) THEN RaiseAt(check_or_raise_id(At(w, 1)).kind, 1, "")
  ELSE IF Failed(check_or_raise_id(At(w, 2))) THEN RaiseAt(check_or_raise_id(At(w, 2)).kind, 2, "")
  ELSE Raise("TypeError")

Unregistered_marshal(m) == <<Code("Unregistered"), m.session, m.request>>

(* ---- Call ---- *)

Call_init(session, request, procedure, args, kwargs, timeout, receive_progress, discloseMe) ==
  Ok([cls |-> "Call",
      f |-> [session |-> session, request |-> request, procedure |-> procedure,
             args |-> args, kwargs |-> kwargs, timeout |-> timeout,
             receive_progress |-> receive_progress, discloseMe |-> discloseMe]])

\* As in Publish.parse, the 'discloseme' type check formats the unbound
\* name option_identifyMe: NameError.
Call_parse(w) ==
  IF Len(w) \notin {5, 6, 7} THEN RaiseAt(PE, 0, "")
  ELSE IF Failed(check_or_raise_id(At(w, 1))) THEN RaiseAt(check_or_raise_id(At(w, 1)).kind, 1, "")
  ELSE IF Failed(check_or_raise_id(At(w, 2))) THEN RaiseAt(check_or_raise_id(At(w, 2)).kind, 2, "")
  ELSE IF Failed(check_or_raise_extra(At(w, 3))) THEN RaiseAt(check_or_raise_extra(At(w, 3)).kind, 3, "")
  ELSE IF Failed(check_or_raise_uri(At(w, 4))) THEN RaiseAt(check_or_raise_uri(At(w, 4)).kind, 4, "")
  ELSE IF Len(w) > 5 /\ type(At(w, 5)) # "list" THEN RaiseAt(PE, 5, "")
  ELSE IF Len(w) > 6 /\ type(At(w, 6)) # "dict" THEN RaiseAt(PE, 6, "")
  ELSE LET options == At(w, 3) IN
    IF has_key(options, "timeout") /\ ~IsInteger(get(options, "timeout")) THEN RaiseAt(PE, 3, "timeout")
    ELSE IF has_key(options, "timeout") /\ IntLess(get(options, "timeout"), PyInt(0)) THEN RaiseAt(PE, 3, "timeout")
    ELSE IF has_key(options, "receive_progress")
            /\ type(get(options, "receive_progress")) # "bool" THEN RaiseAt(PE, 3, "receive_progress")
    ELSE IF has_key(options, "discloseme") /\ type(get(options, "discloseme")) # "bool"
      THEN RaiseAt("NameError", 3, "discloseme")
    ELSE Call_init(At(w, 1), At(w, 2), At(w, 4), Trailing(w, 5), Trailing(w, 6),
                   Option(options, "timeout"), Option(options, "receive_progress"),
                   Option(options, "discloseme"))

\* a marshal of Call that leaves 'timeout' out of the options
Call_marshal_NoTimeout(m) ==
  LET o2 == setitem(EmptyDict, "receive_progress", m.receive_progress # PyNone,
                    m.receive_progress)
      options == setitem(o2, "discloseme", m.discloseMe # PyNone, m.discloseMe)
  IN
  IF Truthy(m.kwargs)
    THEN <<Code("Call"), m.session, m.request, options, m.procedure, m.args, m.kwargs>>
  ELSE IF Truthy(m.args)
    THEN <<Code("Call"), m.session, m.request, options, m.procedure, m.args>>
  ELSE <<Code("Call"), m.session, m.request, options, m.procedure>>

Call_marshal(m) ==
  LET o1 == setitem(EmptyDict, "timeout", m.timeout # PyNone, m.timeout)
      o2 == setitem(o1, "receive_progress", m.receive_progress # PyNone, m.receive_progress)
      options == setitem(o2, "discloseme", m.discloseMe # PyNone, m.discloseMe)
  IN
  IF Truthy(m.kwargs)
    THEN <<Code("Call"), m.session, m.request, options, m.procedure, m.args, m.kwargs>>
  ELSE IF Truthy(m.args)
    THEN <<Code("Call"), m.session, m.request, options, m.procedure, m.args>>
  ELSE <<Code("Call"), m.session, m.request, options, m.procedure>>

(* ---- Cancel ---- *)

SKIP == PyStr("skip")
ABORT == PyStr("abort")
KILL == PyStr("kill")

Cancel_init(session, request, mode) ==
  Ok([cls |-> "Cancel", f |-> [session |-> session, request |-> request, mode |-> mode]])

\* a parse of Cancel that rejects options with a key other than 'mode'
Cancel_parse_Strict(w) ==
  IF Len(w) # 4 THEN RaiseAt(PE, 0, "")
  ELSE IF Failed(check_or_raise_id(At(w, 1))) THEN RaiseAt(check_or_raise_id(At(w, 1)).kind, 1, "")
  ELSE IF Failed(check_or_raise_id(At(w, 2))) THEN RaiseAt(check_or_raise_id(At(w, 2)).kind, 2, "")
  ELSE IF Failed(check_or_raise_extra(At(w, 3))) THEN RaiseAt(check_or_raise_extra(At(w, 3)).kind, 3, "")
  ELSE LET options == At(w, 3) IN
    IF DOMAIN val(options) \ {PyStr("mode")} # {} THEN RaiseAt(PE, 3, "")
    ELSE IF has_key(options, "mode") /\ ~IsString(get(options, "mode")) THEN RaiseAt(PE, 3, "mode")
    ELSE IF has_key(options, "mode") /\ get(options, "mode") \notin {SKIP, ABORT, KILL}
      THEN RaiseAt(PE, 3, "mode")
    ELSE Cancel_init(At(w, 1), At(w, 2), Option(options, "mode"))

Cancel_parse(w) ==
  IF Len(w) # 4 THEN RaiseAt(PE, 0, "")
  ELSE IF Failed(check_or_raise_id(At(w, 1))) THEN RaiseAt(check_or_raise_id(At(w, 1)).kind, 1, "")
  ELSE IF Failed(check_or_raise_id(At(w, 2))) THEN RaiseAt(check_or_raise_id(At(w, 2)).kind, 2, "")
  ELSE IF Failed(check_or_raise_extra(At(w, 3))) THEN RaiseAt(check_or_raise_extra(At(w, 3)).kind, 3, "")
  ELSE LET options == At(w, 3) IN
    IF has_key(options, "mode") /\ ~IsString(get(options, "mode")) THEN RaiseAt(PE, 3, "mode")
    ELSE IF has_key(options, "mode") /\ get(options, "mode") \notin {SKIP, ABORT, KILL}
      THEN RaiseAt(PE, 3, "mode")
    ELSE Cancel_init(At(w, 1), At(w, 2), Option(options, "mode"))

Cancel_marshal(m) ==
  LET options == setitem(EmptyDict, "mode", m.mode # PyNone, m.mode) IN
  <<Code("Cancel"), m.session, m.request, options>>

(* ---- Result ---- *)

Result_init(session, request, args, kwargs, progress) ==
  Ok([cls |-> "Result",
      f |-> [session |-> session, request |-> request, args |-> args, kwargs |-> kwargs,
             progress |-> progress]])

\* a parse of Result that checks 'progress' before the trailing args and kwargs
Result_parse_EntriesFirst(w) ==
  IF Len(w) \notin {4, 5, 6} THEN RaiseAt(PE, 0, "")
  ELSE IF Failed(check_or_raise_id(At(w, 1))) THEN RaiseAt(check_or_raise_id(At(w, 1)).kind, 1, "")
  ELSE IF Failed(check_or_raise_id(At(w, 2))) THEN RaiseAt(check_or_raise_id(At(w, 2)).kind, 2, "")
  ELSE IF Failed(check_or_raise_extra(At(w, 3))) THEN RaiseAt(check_or_raise_extra(At(w, 3)).kind, 3, "")
  ELSE LET details == At(w, 3) IN
    IF has_key(details, "progress") /\ type(get(details, "progress")) # "bool" THEN RaiseAt(PE, 3, "progress")
    ELSE IF Len(w) > 4 /\ type(At(w, 4)) # "list" THEN RaiseAt(PE, 4, "")
    ELSE IF Len(w) > 5 /\ type(At(w, 5)) # "dict" THEN RaiseAt(PE, 5, "")
    ELSE Result_init(At(w, 1), At(w, 2), Trailing(w, 4), Trailing(w, 5),
                     Option(details, "progress"))

Result_parse(w) ==
  IF Len(w) \notin {4, 5, 6} THEN RaiseAt(PE, 0, "")
  ELSE IF Failed(check_or_raise_id(At(w, 1))) THEN RaiseAt(check_or_raise_id(At(w, 1)).kind, 1, "")
  ELSE IF Failed(check_or_raise_id(At(w, 2))) THEN RaiseAt(check_or_raise_id(At(w, 2)).kind, 2, "")
  ELSE IF Failed(check_or_raise_extra(At(w, 3))) THEN RaiseAt(check_or_raise_extra(At(w, 3)).kind, 3, "")
  ELSE IF Len(w) > 4 /\ type(At(w, 4)) # "list" THEN RaiseAt(PE, 4, "")
  ELSE IF Len(w) > 5 /\ type(At(w, 5)) # "dict" THEN RaiseAt(PE, 5, "")
  ELSE LET details == At(w, 3) IN
    IF has_key(details, "progress") /\ type(get(details, "progress")) # "bool" THEN RaiseAt(PE, 3, "progress")
    ELSE Result_init(At(w, 1), At(w, 2), Trailing(w, 4), Trailing(w, 5),
                     Option(details, "progress"))

\* a marshal of Result that leaves out the details mapping when there is no payload
Result_marshal_NoDetails(m) ==
  IF Truthy(m.kwargs) \/ Truthy(m.args)
    THEN <<Code("Result"), m.session, m.request, EmptyDict, m.args, m.kwargs>>
  ELSE <<Code("Result"), m.session, m.request>>

Result_marshal(m) ==
  LET details == setitem(EmptyDict, "progress", m.progress # PyNone, m.progress) IN
  IF Truthy(m.kwargs)
    THEN <<Code("Result"), m.session, m.request, details, m.args, m.kwargs>>
  ELSE IF Truthy(m.args)
    THEN <<Code("Result"), m.session, m.request, details, m.args>>
  ELSE <<Code("Result"), m.session, m.request, details>>

(* ---- Invocation ---- *)

Invocation_init(session, request, registration, args, kwargs, timeout, receive_progress, caller) ==
  Ok([cls |-> "Invocation",
      f |-> [session |-> session, request |-> request, registration |-> registration,
             args |-> args, kwargs |-> kwargs, timeout |-> timeout,
             receive_progress |-> receive_progress, caller |-> caller]])

Invocation_parse(w) ==
  IF Len(w) \notin {5, 6, 7} THEN RaiseAt(PE, 0, "")
  ELSE IF Failed(check_or_raise_id(At(w, 1))) THEN RaiseAt(check_or_raise_id(At(w, 1)).kind, 1, "")
  ELSE IF Failed(check_or_raise_id(At(w, 2))) THEN RaiseAt(check_or_raise_id(At(w, 2)).kind, 2, "")
  ELSE IF Failed(check_or_raise_id(At(w, 3))) THEN RaiseAt(check_or_raise_id(At(w, 3)).kind, 3, "")
  ELSE IF Failed(check_or_raise_extra(At(w, 4))) THEN RaiseAt(check_or_raise_extra(At(w, 4)).kind, 4, "")
  ELSE IF Len(w) > 5 /\ type(At(w, 5)) # "list" THEN RaiseAt(PE, 5, "")
  ELSE IF Len(w) > 6 /\ type(At(w, 6)) # "dict" THEN RaiseAt(PE, 6, "")
  ELSE LET details == At(w, 4) IN
    IF has_key(details, "timeout") /\ ~IsInteger(get(details, "timeout")) THEN RaiseAt(PE, 4, "timeout")
    ELSE IF has_key(details, "timeout") /\ IntLess(get(details, "timeout"), PyInt(0)) THEN RaiseAt(PE, 4, "timeout")
    ELSE IF has_key(details, "receive_progress")
            /\ type(get(details, "receive_progress")) # "bool" THEN RaiseAt(PE, 4, "receive_progress")
    ELSE IF has_key(details, "caller") /\ ~IsInteger(get(details, "caller")) THEN RaiseAt(PE, 4, "caller")
    ELSE Invocation_init(At(w, 1), At(w, 2), At(w, 3), Trailing(w, 5), Trailing(w, 6),
                         Option(details, "timeout"), Option(details, "receive_progress"),
                         Option(details, "caller"))

Invocation_marshal(m) ==
  LET o1 == setitem(EmptyDict, "timeout", m.timeout # PyNone, m.timeout)
      o2 == setitem(o1, "receive_progress", m.receive_progress # PyNone, m.receive_progress)
      options == setitem(o2, "caller", m.caller # PyNone, m.caller)
  IN
  IF Truthy(m.kwargs)
    THEN <<Code("Invocation"), m.session, m.request, m.registration, options, m.args, m.kwargs>>
  ELSE IF Truthy(m.args)
    THEN <<Code("Invocation"), m.session, m.request, m.registration, options, m.args>>
  ELSE <<Code("Invocation"), m.session, m.request, m.registration, options>>

(* ---- Interrupt ---- *)

Interrupt_init(session, request, mode) ==
  Ok([cls |-> "Interrupt", f |-> [session |-> session, request |-> request, mode |-> mode]])

\* a parse of Interrupt that takes the modes of Cancel
Interrupt_parse_WithSkip(w) ==
  IF Len(w) # 4 THEN RaiseAt(PE, 0, "")
  ELSE IF Failed(check_or_raise_id(At(w, 1))) THEN RaiseAt(check_or_raise_id(At(w, 1)).kind, 1, "")
  ELSE IF Failed(check_or_raise_id(At(w, 2))) THEN RaiseAt(check_or_raise_id(At(w, 2)).kind, 2, "")
  ELSE IF Failed(check_or_raise_extra(At(w, 3))) THEN RaiseAt(check_or_raise_extra(At(w, 3)).kind, 3, "")
  ELSE LET options == At(w, 3) IN
    IF has_key(options, "mode") /\ ~IsString(get(options, "mode")) THEN RaiseAt(PE, 3, "mode")
    ELSE IF has_key(options, "mode") /\ get(options, "mode") \notin {SKIP, ABORT, KILL}
      THEN RaiseAt(PE, 3, "mode")
    ELSE Interrupt_init(At(w, 1), At(w, 2), Option(options, "mode"))

Interrupt_parse(w) ==
  IF Len(w) # 4 THEN RaiseAt(PE, 0, "")
  ELSE IF Failed(check_or_raise_id(At(w, 1))) THEN RaiseAt(check_or_raise_id(At(w, 1)).kind, 1, "")
  ELSE IF Failed(check_or_raise_id(At(w, 2))) THEN RaiseAt(check_or_raise_id(At(w, 2)).kind, 2, "")
  ELSE IF Failed(check_or_raise_extra(At(w, 3))) THEN RaiseAt(check_or_raise_extra(At(w, 3)).kind, 3, "")
  ELSE LET options == At(w, 3) IN
    IF has_key(options, "mode") /\ ~IsString(get(options, "mode")) THEN RaiseAt(PE, 3, "mode")
    ELSE IF has_key(options, "mode") /\ get(options, "mode") \notin {ABORT, KILL}
      THEN RaiseAt(PE, 3, "mode")
    ELSE Interrupt_init(At(w, 1), At(w, 2), Option(options, "mode"))

Interrupt_marshal(m) ==
  LET options == setitem(EmptyDict, "mode", m.mode # PyNone, m.mode) IN
  <<Code("Interrupt"), m.session, m.request, options>>

(* ---- Yield ---- *)

Yield_init(session, request, args, kwargs, progress) ==
  Ok([cls |-> "Yield",
      f |-> [session |-> session, request |-> request, args |-> args, kwargs |-> kwargs,
             progress |-> progress]])

Yield_parse(w) ==
  IF Len(w) \notin {4, 5, 6} THEN RaiseAt(PE, 0, "")
  ELSE IF Failed(check_or_raise_id(At(w, 1))) THEN RaiseAt(check_or_raise_id(At(w, 1)).kind, 1, "")
  ELSE IF Failed(check_or_raise_id(At(w, 2))) THEN RaiseAt(check_or_raise_id(At(w, 2)).kind, 2, "")
  ELSE IF Failed(check_or_raise_extra(At(w, 3))) THEN RaiseAt(check_or_raise_extra(At(w, 3)).kind, 3, "")
  ELSE IF Len(w) > 4 /\ type(At(w, 4)) # "list" THEN RaiseAt(PE, 4, "")
  ELSE IF Len(w) > 5 /\ type(At(w, 5)) # "dict" THEN RaiseAt(PE, 5, "")
  ELSE LET options == At(w, 3) IN
    IF has_key(options, "progress") /\ type(get(options, "progress")) # "bool" THEN RaiseAt(PE, 3, "progress")
    ELSE Yield_init(At(w, 1), At(w, 2), Trailing(w, 4), Trailing(w, 5),
                    Option(options, "progress"))

Yield_marshal(m) ==
  LET options == setitem(EmptyDict, "progress", m.progress # PyNone, m.progress) IN
  IF Truthy(m.kwargs)
    THEN <<Code("Yield"), m.session, m.request, options, m.args, m.kwargs>>
  ELSE IF Truthy(m.args)
    THEN <<Code("Yield"), m.session, m.request, options, m.args>>
  ELSE <<Code("Yield"), m.session, m.request, options>>

(* ---- Goodbye ---- *)

Goodbye_init(session, reason, message) ==
  Ok([cls |-> "Goodbye",
      f |-> [session |-> session, reason |-> reason, message |-> message]])

Goodbye_parse(w) ==
  IF Len(w) # 3 THEN RaiseAt(PE, 0, "")
  ELSE IF Failed(check_or_raise_id(At(w, 1))) THEN RaiseAt(check_or_raise_id(At(w, 1)).kind, 1, "")
  ELSE IF Failed(check_or_raise_extra(At(w, 2))) THEN RaiseAt(check_or_raise_extra(At(w, 2)).kind, 2, "")
  ELSE LET details == At(w, 2) IN
    IF has_key(details, "reason") /\ Failed(check_or_raise_uri(get(details, "reason")))
      THEN RaiseAt(check_or_raise_uri(get(details, "reason")).kind, 2, "reason")
    ELSE IF has_key(details, "message") /\ ~IsString(get(details, "message")) THEN RaiseAt(PE, 2, "message")
    ELSE Goodbye_init(At(w, 1), Option(details, "reason"), Option(details, "message"))

Goodbye_marshal(m) ==
  LET d1 == setitem(EmptyDict, "reason", Truthy(m.reason), m.reason)
      details == setitem(d1, "message", Truthy(m.message), m.message)
  IN <<Code("Goodbye"), m.session, details>>

(* ---- Heartbeat ---- *)

Heartbeat_init(session, incoming, outgoing, discard) ==
  Ok([cls |-> "Heartbeat",
      f |-> [session |-> session, incoming |-> incoming, outgoing |-> outgoing,
             discard |-> discard]])

\* a parse of Heartbeat that lets outgoing = 0 through
Heartbeat_parse_ZeroOutgoing(w) ==
  IF Len(w) \notin {4, 5} THEN RaiseAt(PE, 0, "")
  ELSE IF Failed(check_or_raise_id(At(w, 1))) THEN RaiseAt(check_or_raise_id(At(w, 1)).kind, 1, "")
  ELSE IF ~IsInteger(At(w, 2)) THEN RaiseAt(PE, 2, "")
  ELSE IF IntLess(At(w, 2), PyInt(0)) THEN RaiseAt(PE, 2, "")
  ELSE IF ~IsInteger(At(w, 3)) THEN RaiseAt(PE, 3, "")
  ELSE IF IntLess(At(w, 3), PyInt(0)) THEN RaiseAt(PE, 3, "")
  ELSE IF Len(w) > 4 /\ ~IsString(At(w, 4)) THEN RaiseAt(PE, 4, "")
  ELSE Heartbeat_init(At(w, 1), At(w, 2), At(w, 3), Trailing(w, 4))

Heartbeat_parse(w) ==
  IF Len(w) \notin {4, 5} THEN RaiseAt(PE, 0, "")
  ELSE IF Failed(check_or_raise_id(At(w, 1))) THEN RaiseAt(check_or_raise_id(At(w, 1)).kind, 1, "")
  ELSE IF ~IsInteger(At(w, 2)) THEN RaiseAt(PE, 2, "")
  ELSE IF IntLess(At(w, 2), PyInt(0)) THEN RaiseAt(PE, 2, "")
  ELSE IF ~IsInteger(At(w, 3)) THEN RaiseAt(PE, 3, "")
  ELSE IF ~IntLess(PyInt(0), At(w, 3)) THEN RaiseAt(PE, 3, "")
  ELSE IF Len(w) > 4 /\ ~IsString(At(w, 4)) THEN RaiseAt(PE, 4, "")
  ELSE Heartbeat_init(At(w, 1), At(w, 2), At(w, 3), Trailing(w, 4))

\* a marshal of Heartbeat that emits the two counters in the other order
Heartbeat_marshal_Swapped(m) ==
  IF Truthy(m.discard)
    THEN <<Code("Heartbeat"), m.session, m.outgoing, m.incoming, m.discard>>
  ELSE <<Code("Heartbeat"), m.session, m.outgoing, m.incoming>>

Heartbeat_marshal(m) ==
  IF Truthy(m.discard)
    THEN <<Code("Heartbeat"), m.session, m.incoming, m.outgoing, m.discard>>
  ELSE <<Code("Heartbeat"), m.session, m.incoming, m.outgoing>>

(* ---- Hello ---- *)
(* autobahn.wamp.role is outside the source at hand: the role registry and *)
(* the feature records follow the specification (known role names; a       *)
(* feature record keeps the known feature attributes and drops the rest).  *)
(* A Hello's roles are modelled as a function from role name to feature    *)
(* record, a feature record as a function from attribute name to value.    *)

ROLE_NAME_TO_CLASS == {"broker", "subscriber", "publisher", "dealer", "callee", "caller"}

RoleAttributes(role) ==
  IF role \in {"caller", "callee", "dealer"} THEN {"progressive_call_results"}
  ELSE {"publisher_identification"}

\* ROLE_NAME_TO_CLASS[role](**features); features is None for the call without arguments
RoleFeatures_init(role, features) ==
  [n \in RoleAttributes(role) |->
     IF features # PyNone /\ has_key(features, n) THEN get(features, n) ELSE PyNone]

Hello_init(session, realm, roles) ==
  Ok([cls |-> "Hello", f |-> [session |-> session, realm |-> realm, roles |-> roles]])

\* what the loop body of Hello.parse does for the entry k of details['roles']
Hello_parse_role(details_roles, k) ==
  IF val(k) \notin ROLE_NAME_TO_CLASS THEN PE
  ELSE IF type(val(details_roles)[k]) # "dict" THEN "AttributeError"
  ELSE IF has_key(val(details_roles)[k], "features")
    THEN check_or_raise_extra(get(val(details_roles)[k], "features")).kind
  ELSE "ok"

\* The loop runs over the dict in its iteration order and stops at the
\* first entry that fails; the entry is picked by CHOOSE.
Hello_parse(w) ==
  IF Len(w) # 4 THEN RaiseAt(PE, 0, "")
  ELSE IF Failed(check_or_raise_id(At(w, 1))) THEN RaiseAt(check_or_raise_id(At(w, 1)).kind, 1, "")
  ELSE IF Failed(check_or_raise_uri(At(w, 2))) THEN RaiseAt(check_or_raise_uri(At(w, 2)).kind, 2, "")
  ELSE IF Failed(check_or_raise_extra(At(w, 3))) THEN RaiseAt(check_or_raise_extra(At(w, 3)).kind, 3, "")
  ELSE LET details == At(w, 3) IN
    IF ~has_key(details, "roles") THEN RaiseAt(PE, 3, "roles")
    ELSE IF Failed(check_or_raise_extra(get(details, "roles")))
      THEN RaiseAt(check_or_raise_extra(get(details, "roles")).kind, 3, "roles")
    ELSE LET details_roles == get(details, "roles")
             failing == {k \in DOMAIN val(details_roles) :
                           Hello_parse_role(details_roles, k) # "ok"}
         IN
      IF DOMAIN val(details_roles) = {} THEN RaiseAt(PE, 3, "roles")
      ELSE IF failing # {}
        THEN RaiseAt(Hello_parse_role(details_roles, CHOOSE k \in failing : TRUE), 3, "roles")
      ELSE Hello_init(At(w, 1), At(w, 2),
             [r \in {val(k) : k \in DOMAIN val(details_roles)} |->
                RoleFeatures_init(r, Option(val(details_roles)[PyStr(r)], "features"))])

Hello_marshal(m) ==
  LET present(r) == {n \in DOMAIN m.roles[r] : m.roles[r][n] # PyNone}
      features(r) == PyDict([k \in {PyStr(n) : n \in present(r)} |-> m.roles[r][val(k)]])
      entry(r) == IF present(r) = {} THEN EmptyDict
                  ELSE PyDict(PyStr("features") :> features(r))
      details == PyDict(PyStr("roles") :>
                   PyDict([k \in {PyStr(r) : r \in DOMAIN m.roles} |-> entry(val(k))]))
  IN <<Code("Hello"), m.session, m.realm, details>>

----------------------------------------------------------------------------
(* The 21 classes of __all__, and the calls X.parse(wmsg) and msg.marshal() *)

Classes ==
  {"Error", "Subscribe", "Subscribed", "Unsubscribe", "Unsubscribed", "Publish",
   "Published", "Event", "Register", "Registered", "Unregister", "Unregistered",
   "Call", "Cancel", "Result", "Invocation", "Interrupt", "Yield", "Hello",
   "Goodbye", "Heartbeat"}

parse(cls, w) ==
  CASE cls = "Error" -> Error_parse(w)
    [] cls = "Subscribe" -> Subscribe_parse(w)
    [] cls = "Subscribed" -> Subscribed_parse(w)
    [] cls = "Unsubscribe" -> Unsubscribe_parse(w)
    [] cls = "Unsubscribed" -> Unsubscribed_parse(w)
    [] cls = "Publish" -> Publish_parse(w)
    [] cls = "Published" -> Published_parse(w)
    [] cls = "Event" -> Event_parse(w)
    [] cls = "Register" -> Register_parse(w)
    [] cls = "Registered" -> Registered_parse(w)
    [] cls = "Unregister" -> Unregister_parse(w)
    [] cls = "Unregistered" -> Unregistered_parse(w)
    [] cls = "Call" -> Call_parse(w)
    [] cls = "Cancel" -> Cancel_parse(w)
    [] cls = "Result" -> Result_parse(w)
    [] cls = "Invocation" -> Invocation_parse(w)
    [] cls = "Interrupt" -> Interrupt_parse(w)
    [] cls = "Yield" -> Yield_parse(w)
    [] cls = "Hello" -> Hello_parse(w)
    [] cls = "Goodbye" -> Goodbye_parse(w)
    [] cls = "Heartbeat" -> Heartbeat_parse(w)

marshal(msg) ==
  CASE msg.cls = "Error" -> Error_marshal(msg.f)
    [] msg.cls = "Subscribe" -> Subscribe_marshal(msg.f)
    [] msg.cls = "Subscribed" -> Subscribed_marshal(msg.f)
    [] msg.cls = "Unsubscribe" -> Unsubscribe_marshal(msg.f)
    [] msg.cls = "Unsubscribed" -> Unsubscribed_marshal(msg.f)
    [] msg.cls = "Publish" -> Publish_marshal(msg.f)
    [] msg.cls = "Published" -> Published_marshal(msg.f)
    [] msg.cls = "Event" -> Event_marshal(msg.f)
    [] msg.cls = "Register" -> Register_marshal(msg.f)
    [] msg.cls = "Registered" -> Registered_marshal(msg.f)
    [] msg.cls = "Unregister" -> Unregister_marshal(msg.f)
    [] msg.cls = "Unregistered" -> Unregistered_marshal(msg.f)
    [] msg.cls = "Call" -> Call_marshal(msg.f)
    [] msg.cls = "Cancel" -> Cancel_marshal(msg.f)
    [] msg.cls = "Result" -> Result_marshal(msg.f)
    [] msg.cls = "Invocation" -> Invocation_marshal(msg.f)
    [] msg.cls = "Interrupt" -> Interrupt_marshal(msg.f)
    [] msg.cls = "Yield" -> Yield_marshal(msg.f)
    [] msg.cls = "Hello" -> Hello_marshal(msg.f)
    [] msg.cls = "Goodbye" -> Goodbye_marshal(msg.f)
    [] msg.cls = "Heartbeat" -> Heartbeat_marshal(msg.f)

\* the class whose MESSAGE_TYPE is the first element of the wire array w
ClassOf(w) == CHOOSE cls \in Classes : Code(cls) = w[1]

----------------------------------------------------------------------------
(* Inputs of the codec: wire arrays and constructor arguments *)

MaxOptKeys == 2     \* most entries of a generated options / details mapping

I0 == PyInt(0)
I1 == PyInt(1)
INeg == PyIntHL(-1, Limb - 1)          \* -1
IBelowMax == PyIntHL(2^26 - 1, Limb - 1) \* 2^53 - 1
IOver == PyIntHL(2^26, 1)              \* 2^53 + 1 = 9007199254740993
KW == PyDict(PyStr("k") :> PyStr("v"))  \* {"k": "v"}
ARGS == PyList(<<I1>>)                  \* [1]

Atoms ==
  {INeg, I0, I1, MAX_ID, IOver, Code("Hello"), Code("Subscribe"), PyStr(""), PyStr("a"),
   PyBool(TRUE), PyFloat("1.5"), PyNone}

Lists == {EmptyList, ARGS, PyList(<<INeg>>), PyList(<<PyStr("a")>>)}

PlainDicts == {EmptyDict, KW, PyDict(I1 :> I1)}

\* the positional fields of each class after the type code, by kind, from
\* the "Format(s)" line of the class
Fields(cls) ==
  CASE cls = "Hello" -> <<"id", "uri", "extra">>
    [] cls = "Goodbye" -> <<"id", "extra">>
    [] cls = "Heartbeat" -> <<"id", "incoming", "outgoing", "discard">>
    [] cls = "Error" -> <<"id", "reqtype", "id", "extra", "uri", "args", "kwargs">>
    [] cls \in {"Publish", "Call"} -> <<"id", "id", "extra", "uri", "args", "kwargs">>
    [] cls \in {"Subscribe", "Register"} -> <<"id", "id", "extra", "uri">>
    [] cls \in {"Published", "Subscribed", "Unsubscribe", "Registered", "Unregister"}
         -> <<"id", "id", "id">>
    [] cls \in {"Unsubscribed", "Unregistered"} -> <<"id", "id">>
    [] cls \in {"Event", "Invocation"} -> <<"id", "id", "id", "extra", "args", "kwargs">>
    [] cls \in {"Cancel", "Interrupt"} -> <<"id", "id", "extra">>
    [] cls \in {"Result", "Yield"} -> <<"id", "id", "extra", "args", "kwargs">>

\* the keys each class's parse looks up in its options / details
OptionKeys(cls) ==
  CASE cls = "Hello" -> {"roles"}
    [] cls = "Goodbye" -> {"reason", "message"}
    [] cls = "Publish" -> {"acknowledge", "excludeme", "exclude", "eligible", "discloseme"}
    [] cls = "Subscribe" -> {"match"}
    [] cls = "Event" -> {"publisher"}
    [] cls = "Register" -> {"pkeys"}
    [] cls = "Call" -> {"timeout", "receive_progress", "discloseme"}
    [] cls \in {"Cancel", "Interrupt"} -> {"mode"}
    [] cls \in {"Result", "Yield"} -> {"progress"}
    [] cls = "Invocation" -> {"timeout", "receive_progress", "caller"}
    [] OTHER -> {}

RoleDict(name, v) == PyDict(PyStr(name) :> v)
FeatureDict(f) == PyDict(PyStr("features") :> f)

RolesValues ==
  {EmptyDict, I1, PyDict(I1 :> EmptyDict),
   RoleDict("caller", EmptyDict), RoleDict("bogus", EmptyDict), RoleDict("caller", I1),
   PyDict((PyStr("caller") :> EmptyDict) @@ (PyStr("broker") :> EmptyDict)),
   RoleDict("caller", FeatureDict(EmptyDict)),
   RoleDict("caller", FeatureDict(I1)),
   RoleDict("caller", FeatureDict(PyDict(I1 :> I1))),
   RoleDict("caller", FeatureDict(PyDict(PyStr("progressive_call_results") :> PyBool(TRUE)))),
   RoleDict("caller", FeatureDict(PyDict(PyStr("unknown") :> PyBool(TRUE)))),
   RoleDict("caller", PyDict(PyStr("x") :> I1))}

\* candidate values of the entry under key k (a key value) of a generated mapping
EntryValues(k) ==
  CASE k = PyStr("match") -> {MATCH_EXACT, MATCH_PREFIX, MATCH_WILDCARD, PyStr("a"), I1}
    [] k = PyStr("mode") -> {SKIP, ABORT, KILL, PyStr("a"), I1}
    [] k \in {PyStr("acknowledge"), PyStr("excludeme"), PyStr("discloseme"),
              PyStr("receive_progress"), PyStr("progress")}
         -> {PyBool(TRUE), PyBool(FALSE), I1}
    [] k \in {PyStr("exclude"), PyStr("eligible"), PyStr("pkeys")}
         -> {EmptyList, ARGS, PyList(<<INeg>>), PyList(<<IOver>>), PyList(<<PyStr("a")>>), I1}
    [] k \in {PyStr("publisher"), PyStr("caller")} -> {I1, MAX_ID, INeg, IOver, PyStr("a")}
    [] k = PyStr("timeout") -> {I0, I1, INeg, PyStr("a")}
    [] k \in {PyStr("reason"), PyStr("message")} -> {PyStr("a"), PyStr(""), I1}
    [] k = PyStr("roles") -> RolesValues
    [] OTHER -> {I1}

\* keys of generated mappings: the recognized ones, an unrecognized string
\* and a key that is not a string
EntryKeys(cls) == {PyStr(k) : k \in OptionKeys(cls)} \cup {PyStr("x"), I1}

\* mappings of at most MaxOptKeys entries
Mappings(cls) ==
  {PyDict(f) : f \in UNION {
      {g \in [K -> UNION {EntryValues(k) : k \in K}] : \A k \in K : g[k] \in EntryValues(k)} :
      K \in {S \in SUBSET EntryKeys(cls) : Cardinality(S) <= MaxOptKeys}}}

\* values tried at a position of the given kind
FieldValues(cls, kind) ==
  IF kind = "extra" THEN Atoms \cup Lists \cup PlainDicts \cup Mappings(cls)
  ELSE IF kind = "reqtype" THEN Atoms \cup Lists \cup PlainDicts \cup {Code(c) : c \in Classes}
  ELSE Atoms \cup Lists \cup PlainDicts \cup {Code("Call")}

\* second, independent deviation from the valid wire array
FewValues == {INeg, PyStr(""), PyNone, EmptyList, EmptyDict, PyBool(TRUE)}

\* a valid value of each kind
GoodValue(cls, kind) ==
  CASE kind = "id" -> I1
    [] kind = "uri" -> PyStr("a")
    [] kind = "extra" -> IF cls = "Hello" THEN PyDict(PyStr("roles") :> RoleDict("caller", EmptyDict))
                         ELSE EmptyDict
    [] kind = "reqtype" -> Code("Call")
    [] kind = "incoming" -> I0
    [] kind = "outgoing" -> I1
    [] kind = "discard" -> PyStr("a")
    [] kind = "args" -> ARGS
    [] kind = "kwargs" -> KW
    [] OTHER -> I1

KindAt(cls, p) == IF p - 1 <= Len(Fields(cls)) THEN Fields(cls)[p - 1] ELSE "surplus"

\* the valid wire array of class cls with n elements (the elements past the
\* longest format are surplus)
GoodWire(cls, n) == [p \in 1..n |-> IF p = 1 THEN Code(cls) ELSE GoodValue(cls, KindAt(cls, p))]

\* the valid wire array g changed at position p to v and, when q is another
\* position, at q to u
Changed(g, p, v, q, u) == [[g EXCEPT ![q] = IF q = p THEN v ELSE u] EXCEPT ![p] = v]

----------------------------------------------------------------------------
(* The serialization cache of the Message base class *)

\* the serializers handed to serialize(), and the bytes serializer.serialize
\* produces for a wire array: a value determined by the serializer and the array
Serializers == {"json", "msgpack"}
Ser(serializer, w) == <<serializer, w>>
NoBytes == <<>>

\* a value that no serializer can encode, and the wire arrays for which
\* serializer.serialize raises
PyObject == <<"object", "o">>
Serializable(w) == \A i \in 1..Len(w) : type(w[i]) # "object"

\* an instance created with an entry already in its cache
Message_init_Warm(msg) == [msg |-> msg, _serialized |-> ("json" :> NoBytes)]

\* Message.__init__: an instance starts with an empty cache
Message_init(msg) == [msg |-> msg, _serialized |-> EmptyMap]

\* attributes bound in the class instead of in the instance: one _serialized for all
AssignSelf_ClassLevel(heap, m, self) ==
  [x \in DOMAIN heap |->
     IF x = m THEN self ELSE [heap[x] EXCEPT !._serialized = self._serialized]]

\* the instances after a method has assigned to attributes of self, self
\* being instance m: _serialized is bound in __init__ to a mapping of its own
AssignSelf(heap, m, self) == [heap EXCEPT ![m] = self]

\* an uncache that keeps the entries
Message_uncache_Keep(self) == self

\* Message.uncache
Message_uncache(self) == [self EXCEPT !._serialized = EmptyMap]

\* a serialize that does not look in the cache first
Message_serialize_Always(self, serializer) ==
  LET stored == (serializer :> Ser(serializer, marshal(self.msg))) @@ self._serialized
  IN  [self |-> [self EXCEPT !._serialized = stored],
       ret |-> stored[serializer],
       computed |-> TRUE,
       raised |-> FALSE]

\* a serialize that computes again when the cached bytes are not those of the
\* current fields
Message_serialize_Revalidate(self, serializer) ==
  LET stored == (serializer :> Ser(serializer, marshal(self.msg))) @@ self._serialized
  IN  [self |-> [self EXCEPT !._serialized = stored],
       ret |-> stored[serializer],
       computed |-> ~(serializer \in DOMAIN self._serialized
                      /\ self._serialized[serializer] = stored[serializer]),
       raised |-> FALSE]

\* a serialize that leaves an entry behind when the computation fails
Message_serialize_StoreFailure(self, serializer) ==
  LET cached == serializer \in DOMAIN self._serialized
      stored == IF cached THEN self._serialized
                ELSE (serializer :> Ser(serializer, marshal(self.msg))) @@ self._serialized
  IN  [self |-> [self EXCEPT !._serialized = stored],
       ret |-> IF ~cached /\ ~Serializable(marshal(self.msg)) THEN NoBytes ELSE stored[serializer],
       computed |-> ~cached,
       raised |-> ~cached /\ ~Serializable(marshal(self.msg))]

\* Message.serialize: the instance after the call, the bytes returned,
\* whether serializer.serialize(self.marshal()) was evaluated, and whether
\* that evaluation raised (the assignment and the return are then not reached)
Message_serialize(self, serializer) ==
  LET cached == serializer \in DOMAIN self._serialized
      stored == IF cached THEN self._serialized
                ELSE (serializer :> Ser(serializer, marshal(self.msg))) @@ self._serialized
  IN  IF ~cached /\ ~Serializable(marshal(self.msg))
        THEN [self |-> self, ret |-> NoBytes, computed |-> TRUE, raised |-> TRUE]
      ELSE [self |-> [self EXCEPT !._serialized = stored],
            ret |-> stored[serializer],
            computed |-> ~cached,
            raised |-> FALSE]

MaxOps == 5
MaxThreads == 2
MaxCallsPerThread == 2

Instances == {"A", "B"}
Threads == 1..MaxThreads

NoCall ==
  [op |-> "none", m |-> "none", s |-> "none", before |-> FALSE, computed |-> FALSE,
   raised |-> FALSE, prior |-> EmptyMap, ret |-> NoBytes]
Idle == [pc |-> "idle", m |-> "A", s |-> "json", value |-> NoBytes, calls |-> 0]

\* two instances with equal field values, nothing serialized yet
CacheInit ==
  /\ inst = [m \in Instances |-> Message_init(Subscribed_init(I1, I1, I1).msg)]
  /\ last = NoCall
  /\ first = [m \in Instances |-> EmptyMap]
  /\ nMarshal = [m \in Instances |-> [s \in Serializers |-> 0]]
  /\ ops = 0
  /\ frame = [t \in Threads |-> Idle]
  /\ touched = [m \in Instances |-> FALSE]
  /\ snap = [m \in Instances |-> EmptyMap]

----------------------------------------------------------------------------
(* The fuzzing server factory and its two indexes of case results *)

MaxRuns == 4

Agents == {"agent1", "agent2"}
CaseNos == {1, 2}

\* FuzzingServerFactory.__init__
FuzzingServerFactory_init == [agents |-> EmptyMap, cases |-> EmptyMap]

\* d[k1][k2] = v, after d[k1] = {} when d has no key k1
SetNested(d, k1, k2, v) ==
  LET d1 == IF k1 \in DOMAIN d THEN d ELSE (k1 :> EmptyMap) @@ d
  IN  [d1 EXCEPT ![k1] = (k2 :> v) @@ @]

\* a logCase that starts the inner mapping of the case anew on every call
FuzzingServerFactory_logCase_NewInner(self, caseResults) ==
  [agents |-> SetNested(self.agents, caseResults.agent, caseResults.case, caseResults),
   cases |-> (caseResults.case :> (caseResults.agent :> caseResults)) @@ self.cases]

\* FuzzingServerFactory.logCase
FuzzingServerFactory_logCase(self, caseResults) ==
  LET agent == caseResults.agent
      case == caseResults.case
  IN  [agents |-> SetNested(self.agents, agent, case, caseResults),
       cases |-> SetNested(self.cases, case, agent, caseResults)]

\* FuzzingServerFactory.getCase
FuzzingServerFactory_getCase(self, agent, case) ==
  IF agent \in DOMAIN self.agents /\ case \in DOMAIN self.agents[agent]
    THEN VOk(self.agents[agent][case])
  ELSE VRaise("KeyError")

NoGot == [agent |-> "none", case |-> 0, r |-> VRaise("none")]

FuzzInit ==
  /\ factory = FuzzingServerFactory_init
  /\ logged = EmptyMap
  /\ got = NoGot
  /\ clock = 0

----------------------------------------------------------------------------
(* The codec as a state machine: a wire array is received and parsed, or a *)
(* message is built by its constructor; the message is then marshalled and *)
(* the result parsed again.  The validators are also run on their own.     *)

NoWire == <<>>
NoRes == Raise("none")

CodecInit ==
  /\ pc = "start" /\ origin = "none"
  /\ wmsg = NoWire /\ res = NoRes /\ out = NoWire /\ res2 = NoRes
  /\ vop = "none" /\ vin = PyNone /\ vres = VRaise("none")

Receive ==
  /\ pc = "start"
  /\ \E cls \in Classes : \E n \in 2..(Len(Fields(cls)) + 2) : \E p \in 2..n, q \in 2..n :
       \E v \in FieldValues(cls, KindAt(cls, p)), u \in FewValues :
         /\ q = p => u = PyNone
         /\ wmsg' = Changed(GoodWire(cls, n), p, v, q, u)
         /\ res' = parse(cls, wmsg')
  /\ pc' = "object" /\ origin' = "wire"
  /\ UNCHANGED cacheVars
  /\ UNCHANGED fuzzVars
  /\ UNCHANGED <<out, res2, vop, vin, vres>>

\* constructor arguments
CtorIds == {I1, MAX_ID}
CtorArgs == {PyNone, EmptyList, ARGS}
CtorKwargs == {PyNone, EmptyDict, KW}
CtorBool == {PyNone, PyBool(TRUE), PyBool(FALSE)}
CtorIdList == {PyNone, EmptyList, ARGS}
CtorText == {PyNone, PyStr(""), PyStr("a")}
CtorRoles ==
  {[r \in R |-> [n \in RoleAttributes(r) |-> v]] :
     R \in {{"caller"}, {"caller", "broker"}}, v \in {PyNone, PyBool(TRUE)}}

\* X(...) for each class X, on arguments from the sets above
Construct ==
  /\ pc = "start"
  /\ \E session \in CtorIds, request \in {I1}, id \in {I1}, uri \in {PyStr("a")} :
       \/ \E match \in {MATCH_EXACT, MATCH_PREFIX, MATCH_WILDCARD, PyNone} :
            res' = Subscribe_init(session, request, uri, match)
       \/ res' = Subscribed_init(session, request, id)
       \/ res' = Unsubscribe_init(request, id)
       \/ res' = Unsubscribed_init(session, request)
       \/ res' = Published_init(session, request, id)
       \/ \E pkeys \in CtorIdList : res' = Register_init(session, request, uri, pkeys)
       \/ res' = Registered_init(session, request, id)
       \/ res' = Unregister_init(session, request, id)
       \/ res' = Unregistered_init(session, request)
       \/ \E mode \in {PyNone, SKIP, ABORT, KILL} : res' = Cancel_init(session, request, mode)
       \/ \E mode \in {PyNone, ABORT, KILL} : res' = Interrupt_init(session, request, mode)
       \/ \E roles \in CtorRoles : res' = Hello_init(session, uri, roles)
       \/ \E reason \in {PyNone, PyStr("a")}, message \in CtorText :
            res' = Goodbye_init(session, reason, message)
       \/ \E incoming \in {I0, I1}, discard \in CtorText :
            res' = Heartbeat_init(session, incoming, I1, discard)
       \/ \E args \in CtorArgs, kwargs \in CtorKwargs :
            \/ \E t \in {Code("Call"), Code("Subscribe")} :
                 res' = Error_init(session, t, request, uri, args, kwargs)
            \/ \E ack \in CtorBool, excludeMe \in {PyNone, PyBool(TRUE)}, exclude \in CtorIdList,
                  eligible \in {PyNone, ARGS}, discloseMe \in {PyNone, PyBool(FALSE)} :
                 res' = Publish_init(session, request, uri, args, kwargs, ack, excludeMe,
                                     exclude, eligible, discloseMe)
            \/ \E publisher \in {PyNone, I1} :
                 res' = Event_init(session, id, id, args, kwargs, publisher)
            \/ \E timeout \in {PyNone, I0, I1}, receive_progress \in {PyNone, PyBool(TRUE)},
                  discloseMe \in CtorBool :
                 res' = Call_init(session, request, uri, args, kwargs, timeout,
                                  receive_progress, discloseMe)
            \/ \E progress \in CtorBool :
                 \/ res' = Result_init(session, request, args, kwargs, progress)
                 \/ res' = Yield_init(session, request, args, kwargs, progress)
            \/ \E timeout \in {PyNone, I1}, receive_progress \in {PyNone, PyBool(TRUE)},
                  caller \in {PyNone, I1} :
                 res' = Invocation_init(session, request, id, args, kwargs, timeout,
                                        receive_progress, caller)
  /\ pc' = "object" /\ origin' = "ctor"
  /\ UNCHANGED cacheVars
  /\ UNCHANGED fuzzVars
  /\ UNCHANGED <<wmsg, out, res2, vop, vin, vres>>

Marshal ==
  /\ pc = "object" /\ res.kind = "ok"
  /\ out' = marshal(res.msg)
  /\ pc' = "marshalled"
  /\ UNCHANGED cacheVars
  /\ UNCHANGED fuzzVars
  /\ UNCHANGED <<origin, wmsg, res, res2, vop, vin, vres>>

Reparse ==
  /\ pc = "marshalled"
  /\ res2' = parse(res.msg.cls, out)
  /\ pc' = "reparsed"
  /\ UNCHANGED cacheVars
  /\ UNCHANGED fuzzVars
  /\ UNCHANGED <<origin, wmsg, res, out, vop, vin, vres>>

ValidatorInputs == Atoms \cup Lists \cup PlainDicts \cup {IBelowMax, PyIntHL(2^27, 5)}

Validate ==
  /\ pc = "start"
  /\ \E v \in ValidatorInputs :
       /\ vin' = v
       /\ \/ vop' = "id" /\ vres' = check_or_raise_id(v)
          \/ vop' = "uri" /\ vres' = check_or_raise_uri(v)
          \/ vop' = "extra" /\ vres' = check_or_raise_extra(v)
  /\ pc' = "validated"
  /\ UNCHANGED cacheVars
  /\ UNCHANGED fuzzVars
  /\ UNCHANGED <<origin, wmsg, res, out, res2>>

CodecNext == Receive \/ Construct \/ Marshal \/ Reparse \/ Validate

Init == CodecInit /\ CacheInit /\ FuzzInit

Spec == Init /\ [][CodecNext]_vars

----------------------------------------------------------------------------
(* Properties of the codec *)

Parsed == origin = "wire" /\ pc \in {"object", "marshalled", "reparsed"}
Marshalled == pc \in {"marshalled", "reparsed"}

\* position of the options / details mapping in a wire array of class cls, 0 if none
ExtraPos(cls) ==
  IF \E i \in 1..Len(Fields(cls)) : Fields(cls)[i] = "extra"
    THEN 1 + CHOOSE i \in 1..Len(Fields(cls)) : Fields(cls)[i] = "extra"
  ELSE 0

\* C1 (as stated): marshal(parse(x)) = x for every wire array x that parse accepts.
C1_MarshalOfParse == (Parsed /\ Marshalled) => out = wmsg

\* x has the form marshal emits.  Its options / details mapping holds only
\* keys the class recognizes (none for Error), each with a value that is not
\* the default: no match 'exact', no empty reason or message, and in Hello
\* nothing beside 'roles', each role entry either empty or a non-empty
\* 'features' mapping of known attributes with values other than None.  Its
\* last element, when it is a trailing args, kwargs or discard, is non-empty.
CanonicalRole(name, entry) ==
  \/ entry = EmptyDict
  \/ /\ DOMAIN val(entry) = {PyStr("features")}
     /\ type(get(entry, "features")) = "dict"
     /\ DOMAIN val(get(entry, "features")) # {}
     /\ \A k \in DOMAIN val(get(entry, "features")) :
          /\ IsString(k) /\ val(k) \in RoleAttributes(val(name))
          /\ val(get(entry, "features"))[k] # PyNone

CanonicalExtra(cls, d) ==
  /\ DOMAIN val(d) \subseteq {PyStr(k) : k \in OptionKeys(cls)}
  /\ cls = "Subscribe" /\ has_key(d, "match") => get(d, "match") # MATCH_EXACT
  /\ cls = "Goodbye" => \A k \in DOMAIN val(d) : val(d)[k] # PyStr("")
  /\ cls = "Hello" /\ has_key(d, "roles") =>
       \A r \in DOMAIN val(get(d, "roles")) : CanonicalRole(r, val(get(d, "roles"))[r])

Canonical(cls, w) ==
  /\ ExtraPos(cls) # 0 => CanonicalExtra(cls, w[ExtraPos(cls)])
  /\ KindAt(cls, Len(w)) \in {"args", "kwargs", "discard"} => Truthy(w[Len(w)])

\* C1 (amended): marshal(parse(x)) = x for every wire array x that parse
\* accepts and that has the form marshal emits (Canonical); on other accepted
\* arrays marshal drops the entries and trailing elements it never emits.
C1_MarshalOfParseCanonical ==
  (Parsed /\ Marshalled /\ Canonical(res.msg.cls, wmsg)) => out = wmsg

C1_Witness ==
  /\ Parsed /\ Marshalled
  /\ wmsg[1] = Code("Call") /\ Len(wmsg) = 7
  /\ has_key(wmsg[4], "timeout") /\ has_key(wmsg[4], "receive_progress")
  /\ Canonical("Call", wmsg) /\ out = wmsg

\* the constructor arguments are valid field values: kwargs only together
\* with args, and every optional argument either None or a value the wire
\* form carries (a non-empty args, kwargs, message or discard, one of
\* the three match policies); the identifiers and URIs the
\* driver passes are all valid
ValidCtorFields(msg) ==
  /\ \A a \in {"args", "kwargs", "message", "discard"} \cap DOMAIN msg.f :
       msg.f[a] = PyNone \/ Truthy(msg.f[a])
  /\ "kwargs" \in DOMAIN msg.f => (Truthy(msg.f.kwargs) => Truthy(msg.f.args))
  /\ "match" \in DOMAIN msg.f => msg.f.match \in {MATCH_EXACT, MATCH_PREFIX, MATCH_WILDCARD}

\* C2: for a message m built by a constructor from valid field values,
\* parse(marshal(m)) succeeds and returns a message whose fields equal m's.
C2_ParseOfMarshal ==
  (origin = "ctor" /\ pc = "reparsed" /\ ValidCtorFields(res.msg))
    => (res2.kind = "ok" /\ res2.msg.f = res.msg.f)

\* C3: parse of a wire array that starts with the class's type code returns a
\* message or raises ProtocolError, never another exception.
C3_OnlyProtocolError == Parsed => res.kind \in {"ok", PE}

\* the lengths the specification's table allows for each class
AllowedLengths(cls) ==
  CASE cls \in {"Goodbye", "Unsubscribed", "Unregistered"} -> {3}
    [] cls \in {"Hello", "Published", "Subscribed", "Unsubscribe", "Registered", "Unregister",
                "Cancel", "Interrupt"} -> {4}
    [] cls \in {"Subscribe", "Register"} -> {5}
    [] cls = "Heartbeat" -> {4, 5}
    [] cls \in {"Result", "Yield"} -> {4, 5, 6}
    [] cls \in {"Publish", "Event", "Call", "Invocation"} -> {5, 6, 7}
    [] cls = "Error" -> {6, 7, 8}

\* C4: a wire array with valid fields parses into a message at every allowed
\* length, and raises ProtocolError one below the shortest and one above the
\* longest allowed length.
C4_LengthBoundary ==
  (Parsed /\ wmsg = GoodWire(ClassOf(wmsg), Len(wmsg))) =>
     IF Len(wmsg) \in AllowedLengths(ClassOf(wmsg)) THEN res.kind = "ok" ELSE res.kind = PE

\* the integers 0 .. 2^53 in the two-limb representation
InIdRange(v) ==
  /\ IsInteger(v)
  /\ val(v)[1] >= 0
  /\ val(v)[1] < 2^26 \/ val(v) = <<2^26, 0>>

\* C8: check_or_raise_id accepts exactly the integers v with 0 <= v <= 2^53,
\* returns v unchanged, and raises ProtocolError for everything else.
C8_IdRange ==
  (pc = "validated" /\ vop = "id") =>
     IF InIdRange(vin) THEN vres.kind = "ok" /\ vres.val = vin ELSE vres.kind = PE

C8_Witness ==
  /\ pc = "validated" /\ vop = "id" /\ vin = MAX_ID /\ vres.kind = "ok" /\ vres.val = MAX_ID

\* positions of the URI fields of class cls
UriPositions(cls) == {1 + i : i \in {j \in 1..Len(Fields(cls)) : Fields(cls)[j] = "uri"}}

BadUri(v) == ~IsString(v) \/ v = PyStr("")

\* the wire array w with the value at URI position p replaced by a valid URI,
\* and with a valid 'reason' in the details of a Goodbye
WithGoodUri(w, p) == [w EXCEPT ![p] = PyStr("a")]
WithGoodReason(w) == [w EXCEPT ![3] = PyDict((PyStr("reason") :> PyStr("a")) @@ val(w[3]))]

\* C9: when a URI-bearing field (or the 'reason' detail of Goodbye) is the
\* empty string or not a string and every other field is valid (the array
\* parses once the URI is replaced by a valid one), parse raises ProtocolError.
C9_BadUriRejected ==
  Parsed =>
    /\ \A p \in UriPositions(ClassOf(wmsg)) :
         (p <= Len(wmsg) /\ BadUri(wmsg[p])
            /\ parse(ClassOf(wmsg), WithGoodUri(wmsg, p)).kind = "ok") => res.kind = PE
    /\ (/\ ClassOf(wmsg) = "Goodbye" /\ Len(wmsg) = 3 /\ type(wmsg[3]) = "dict"
        /\ has_key(wmsg[3], "reason") /\ BadUri(get(wmsg[3], "reason"))
        /\ parse("Goodbye", WithGoodReason(wmsg)).kind = "ok") => res.kind = PE

C9_Witness ==
  /\ Parsed /\ ClassOf(wmsg) = "Goodbye" /\ Len(wmsg) = 3 /\ type(wmsg[3]) = "dict"
  /\ has_key(wmsg[3], "reason") /\ get(wmsg[3], "reason") = PyStr("")
  /\ has_key(wmsg[3], "message")
  /\ parse("Goodbye", WithGoodReason(wmsg)).kind = "ok" /\ res.kind = PE

\* C10: check_or_raise_extra returns its argument unchanged when it is a
\* mapping whose keys are all strings, and raises ProtocolError otherwise.
C10_ExtraValidator ==
  (pc = "validated" /\ vop = "extra") =>
     IF type(vin) = "dict" /\ \A k \in DOMAIN val(vin) : IsString(k)
       THEN vres.kind = "ok" /\ vres.val = vin
     ELSE vres.kind = PE

----------------------------------------------------------------------------
(* The cache under sequential use: calls on the instances run one at a time *)

\* m.serialize(s)
Serialize ==
  /\ ops < MaxOps
  /\ \E m \in Instances, s \in Serializers :
       LET r == Message_serialize(inst[m], s) IN
         /\ inst' = AssignSelf(inst, m, r.self)
         /\ last' = [op |-> "serialize", m |-> m, s |-> s, before |-> s \in DOMAIN first[m],
                     computed |-> r.computed, raised |-> r.raised,
                     prior |-> inst[m]._serialized, ret |-> r.ret]
         /\ first' = [first EXCEPT ![m] =
                        IF s \in DOMAIN @ \/ r.raised THEN @ ELSE (s :> r.ret) @@ @]
         /\ nMarshal' = [nMarshal EXCEPT ![m][s] = IF r.computed THEN @ + 1 ELSE @]
         /\ snap' = [snap EXCEPT ![m] =
                       IF s \in DOMAIN @ \/ r.raised THEN @ ELSE (s :> inst[m].msg) @@ @]
  /\ ops' = ops + 1
  /\ UNCHANGED <<frame, touched>>
  /\ UNCHANGED codecVars
  /\ UNCHANGED fuzzVars

\* m.uncache()
Uncache ==
  /\ ops < MaxOps
  /\ \E m \in Instances :
       /\ inst' = AssignSelf(inst, m, Message_uncache(inst[m]))
       /\ last' = [NoCall EXCEPT !.op = "uncache", !.m = m, !.prior = inst[m]._serialized]
       /\ first' = [first EXCEPT ![m] = EmptyMap]
       /\ snap' = [snap EXCEPT ![m] = EmptyMap]
  /\ ops' = ops + 1
  /\ UNCHANGED <<nMarshal, frame, touched>>
  /\ UNCHANGED codecVars
  /\ UNCHANGED fuzzVars

\* m.subscription = v: an attribute of the instance is assigned a new value
SetField ==
  /\ ops < MaxOps
  /\ \E m \in Instances, v \in {I0, I1, PyObject} :
       /\ inst[m].msg.f.subscription # v
       /\ inst' = AssignSelf(inst, m, [inst[m] EXCEPT !.msg.f.subscription = v])
       /\ last' = [NoCall EXCEPT !.op = "set", !.m = m]
       /\ touched' = [touched EXCEPT ![m] = TRUE]
  /\ ops' = ops + 1
  /\ UNCHANGED <<first, nMarshal, frame, snap>>
  /\ UNCHANGED codecVars
  /\ UNCHANGED fuzzVars

CacheNext == Serialize \/ Uncache \/ SetField

SpecCache == Init /\ [][CacheNext]_vars

----------------------------------------------------------------------------
(* The cache under concurrent use: each caller runs serialize() statement  *)
(* by statement, and the callers' statements interleave.  No caller calls  *)
(* uncache().                                                              *)

\* a caller enters m.serialize(s) and evaluates self._serialized.has_key(serializer)
Check(t) ==
  /\ frame[t].pc = "idle" /\ frame[t].calls < MaxCallsPerThread
  /\ \E m \in Instances, s \in Serializers :
       frame' = [frame EXCEPT ![t] =
                   [pc |-> IF s \in DOMAIN inst[m]._serialized THEN "return" ELSE "compute",
                    m |-> m, s |-> s, value |-> NoBytes, calls |-> @.calls + 1]]
  /\ UNCHANGED <<inst, last, first, nMarshal, ops, touched, snap>>
  /\ UNCHANGED codecVars
  /\ UNCHANGED fuzzVars

\* the right-hand side serializer.serialize(self.marshal()) is evaluated; when
\* it raises the caller leaves serialize() without storing
Compute(t) ==
  /\ frame[t].pc = "compute"
  /\ frame' = [frame EXCEPT ![t].pc = IF Serializable(marshal(inst[frame[t].m].msg))
                                        THEN "store" ELSE "idle",
                            ![t].value = Ser(frame[t].s, marshal(inst[frame[t].m].msg))]
  /\ nMarshal' = [nMarshal EXCEPT ![frame[t].m][frame[t].s] = @ + 1]
  /\ UNCHANGED <<inst, last, first, ops, touched, snap>>
  /\ UNCHANGED codecVars
  /\ UNCHANGED fuzzVars

\* its value is assigned to self._serialized[serializer]
Store(t) ==
  /\ frame[t].pc = "store"
  /\ inst' = AssignSelf(inst, frame[t].m,
                        [inst[frame[t].m] EXCEPT !._serialized = (frame[t].s :> frame[t].value) @@ @])
  /\ frame' = [frame EXCEPT ![t].pc = "return"]
  /\ UNCHANGED <<last, first, nMarshal, ops, touched, snap>>
  /\ UNCHANGED codecVars
  /\ UNCHANGED fuzzVars

\* return self._serialized[serializer]
Return(t) ==
  /\ frame[t].pc = "return"
  /\ frame' = [frame EXCEPT ![t].pc = "idle",
                            ![t].value = inst[frame[t].m]._serialized[frame[t].s]]
  /\ UNCHANGED <<inst, last, first, nMarshal, ops, touched, snap>>
  /\ UNCHANGED codecVars
  /\ UNCHANGED fuzzVars

ConcNext == \E t \in Threads : Check(t) \/ Compute(t) \/ Store(t) \/ Return(t)

SpecConc == Init /\ [][ConcNext]_vars

----------------------------------------------------------------------------
(* The fuzzing server: connections of the agents end, each logs the result *)
(* of the case it ran; results are looked up in between                    *)

\* FuzzingServerProtocol.connectionLost of a connection that ran a case
connectionLost ==
  /\ clock < MaxRuns
  /\ \E agent \in Agents, case \in CaseNos, passed \in BOOLEAN :
       LET caseResult == [case |-> case, agent |-> agent, started |-> clock, passed |-> passed]
       IN  /\ factory' = FuzzingServerFactory_logCase(factory, caseResult)
           /\ logged' = (<<agent, case>> :> caseResult) @@ logged
  /\ got' = NoGot
  /\ clock' = clock + 1
  /\ UNCHANGED codecVars
  /\ UNCHANGED cacheVars

\* factory.getCase(agent, case)
getCase ==
  /\ \E agent \in Agents, case \in CaseNos :
       got' = [agent |-> agent, case |-> case,
               r |-> FuzzingServerFactory_getCase(factory, agent, case)]
  /\ UNCHANGED <<factory, logged, clock>>
  /\ UNCHANGED codecVars
  /\ UNCHANGED cacheVars

FuzzNext == connectionLost \/ getCase

SpecFuzz == Init /\ [][FuzzNext]_vars

\* agents[a][c] exists
InAgents(a, c) == a \in DOMAIN factory.agents /\ c \in DOMAIN factory.agents[a]
\* cases[c][a] exists
InCases(a, c) == c \in DOMAIN factory.cases /\ a \in DOMAIN factory.cases[c]

\* C30: after any sequence of logCase calls, agents[a][c] exists exactly when
\* cases[c][a] exists, which is exactly when logCase was called for (a, c);
\* both hold the record of the most recent logCase for (a, c), and
\* getCase(a, c) returns that record.
C30_IndexesAgree ==
  /\ \A a \in Agents, c \in CaseNos :
       /\ InAgents(a, c) <=> InCases(a, c)
       /\ InAgents(a, c) <=> <<a, c>> \in DOMAIN logged
       /\ InAgents(a, c) =>
            /\ factory.agents[a][c] = logged[<<a, c>>]
            /\ factory.cases[c][a] = logged[<<a, c>>]
  /\ DOMAIN factory.agents \subseteq Agents
  /\ DOMAIN factory.cases \subseteq CaseNos
  /\ (got.r.kind = "ok") => got.r.val = logged[<<got.agent, got.case>>]

C30_Witness ==
  /\ got.r.kind = "ok" /\ got.agent = "agent1" /\ got.case = 1
  /\ got.r.val.started > 0
  /\ InAgents("agent2", 1) /\ InAgents("agent1", 2) /\ ~InAgents("agent2", 2)

----------------------------------------------------------------------------
(* Properties of the cache *)

\* C5: once serialize(s) has returned on an instance, a later serialize(s) on
\* it with no uncache() in between returns the bytes of that first call and
\* evaluates neither marshal() nor s.serialize, whatever calls with other
\* serializers, on other instances, or attribute assignments came in between.
C5_CachedNotRecomputed ==
  (last.op = "serialize" /\ last.before) =>
     (~last.computed /\ last.ret = first[last.m][last.s])

C5_Witness ==
  /\ last.op = "serialize" /\ last.before /\ ~last.computed
  /\ last.ret = first[last.m][last.s]
  /\ DOMAIN inst[last.m]._serialized = Serializers
  /\ nMarshal[last.m][last.s] = 1

\* C6: uncache() leaves the instance's cache without an entry for any
\* serializer, whatever it held, and a serialize(s) with no earlier
\* serialize(s) since the last uncache() evaluates marshal() again.
C6_UncacheClears ==
  /\ last.op = "uncache" => DOMAIN inst[last.m]._serialized = {}
  /\ (last.op = "serialize" /\ ~last.before) => last.computed

C6_Witness ==
  /\ last.op = "serialize" /\ ~last.before /\ last.computed
  /\ nMarshal[last.m][last.s] = 2
  /\ \A s \in Serializers : nMarshal[last.m][s] >= 1

\* C7: with concurrent callers of serialize(s) on one instance (and no
\* uncache), serializer.serialize(marshal()) is evaluated at most once for
\* each instance and serializer, in every interleaving.
C7_AtMostOnce == \A m \in Instances, s \in Serializers : nMarshal[m][s] <= 1

----------------------------------------------------------------------------
(* Properties of the payload-carrying classes *)

PayloadClasses == {"Error", "Publish", "Event", "Call", "Result", "Invocation", "Yield"}

\* positions of the trailing args and kwargs elements in a wire array of a
\* payload-carrying class
ArgsPos(cls) == Len(Fields(cls))
KwargsPos(cls) == Len(Fields(cls)) + 1

\* C11: no constructor of a payload-carrying class returns a message whose
\* kwargs is non-empty while its args is None or empty.
C11_KwargsNeedArgs ==
  (origin = "ctor" /\ pc = "object" /\ res.kind = "ok" /\ res.msg.cls \in PayloadClasses) =>
     (Truthy(res.msg.f.kwargs) => Truthy(res.msg.f.args))

\* C12: the wire array marshal returns for a message of a payload-carrying
\* class has a kwargs element only after an args element that is a list, and
\* has an args element only when the message's args is not None.
C12_MarshalPayloadShape ==
  (Marshalled /\ res.msg.cls \in PayloadClasses) =>
     /\ Len(out) >= KwargsPos(res.msg.cls) => type(out[ArgsPos(res.msg.cls)]) = "list"
     /\ Len(out) >= ArgsPos(res.msg.cls) => res.msg.f.args # PyNone

----------------------------------------------------------------------------
(* Properties of the options / details mapping *)

\* the wire array has an options / details mapping at the position of its class
HasExtra(w) ==
  /\ ExtraPos(ClassOf(w)) # 0 /\ Len(w) >= ExtraPos(ClassOf(w))
  /\ type(w[ExtraPos(ClassOf(w))]) = "dict"

\* the string keys of mapping d that class cls does not recognize
UnknownKeys(cls, d) ==
  {k \in DOMAIN val(d) : IsString(k) /\ val(k) \notin OptionKeys(cls)}

\* the wire array w without the unrecognized entries of its options / details
WithoutUnknown(w) ==
  LET cls == ClassOf(w)
      d == w[ExtraPos(cls)]
  IN  [w EXCEPT ![ExtraPos(cls)] =
         PyDict([k \in DOMAIN val(d) \ UnknownKeys(cls, d) |-> val(d)[k]])]

\* C13 (as stated): the entries of the options / details mapping under keys
\* the class does not recognize appear unchanged in the mapping that marshal
\* of the parsed message produces.
C13_UnknownKeysPreserved ==
  (Parsed /\ Marshalled /\ HasExtra(wmsg)) =>
     \A k \in UnknownKeys(ClassOf(wmsg), wmsg[ExtraPos(ClassOf(wmsg))]) :
        /\ k \in DOMAIN val(out[ExtraPos(ClassOf(wmsg))])
        /\ val(out[ExtraPos(ClassOf(wmsg))])[k] = val(wmsg[ExtraPos(ClassOf(wmsg))])[k]

\* C13 (amended): entries under unrecognized keys are accepted and ignored:
\* parse gives the same outcome as on the array without them, and the mapping
\* marshal produces holds no key the class does not recognize.
C13_UnknownKeysIgnored ==
  (Parsed /\ HasExtra(wmsg)) =>
     /\ res = parse(ClassOf(wmsg), WithoutUnknown(wmsg))
     /\ Marshalled => UnknownKeys(ClassOf(wmsg), out[ExtraPos(ClassOf(wmsg))]) = {}

C13_Witness ==
  /\ Parsed /\ Marshalled /\ ClassOf(wmsg) = "Cancel"
  /\ DOMAIN val(wmsg[4]) = {PyStr("mode"), PyStr("x")}
  /\ res.kind = "ok" /\ res.msg.f.mode = get(wmsg[4], "mode")
  /\ DOMAIN val(out[4]) = {PyStr("mode")}

----------------------------------------------------------------------------
(* Properties of single classes *)

\* C14: Unregistered.parse of [67, session, request] with valid identifiers
\* returns an Unregistered with that session and request, and marshal of it
\* is [67, session, request].
C14_UnregisteredParse ==
  (/\ Parsed /\ ClassOf(wmsg) = "Unregistered" /\ Len(wmsg) = 3
   /\ InIdRange(wmsg[2]) /\ InIdRange(wmsg[3])) =>
     /\ res.kind = "ok" /\ res.msg.cls = "Unregistered"
     /\ res.msg.f.session = wmsg[2] /\ res.msg.f.request = wmsg[3]
     /\ Marshalled => out = wmsg

StringKeyed(d) == type(d) = "dict" /\ \A k \in DOMAIN val(d) : IsString(k)

\* C15: with valid session, realm and details, Hello.parse raises
\* ProtocolError when details has no 'roles', when 'roles' is an empty
\* mapping, or when a key of 'roles' is not a known role name; for a
\* non-empty 'roles' of known role names (whose 'features', where given, are
\* string-keyed mappings) it returns a Hello with one role record per key.
C15_HelloRoles ==
  (/\ Parsed /\ ClassOf(wmsg) = "Hello" /\ Len(wmsg) = 4
   /\ InIdRange(wmsg[2]) /\ ~BadUri(wmsg[3]) /\ StringKeyed(wmsg[4])) =>
     LET details == wmsg[4] IN
     IF ~has_key(details, "roles") THEN res.kind = PE
     ELSE IF type(get(details, "roles")) # "dict" THEN TRUE
     ELSE LET roles == val(get(details, "roles")) IN
       IF DOMAIN roles = {} THEN res.kind = PE
       ELSE IF \E k \in DOMAIN roles : ~(IsString(k) /\ val(k) \in ROLE_NAME_TO_CLASS)
         THEN res.kind = PE
       ELSE IF \E k \in DOMAIN roles :
                 /\ type(roles[k]) = "dict" /\ has_key(roles[k], "features")
                 /\ ~StringKeyed(get(roles[k], "features"))
         THEN TRUE
       ELSE /\ res.kind = "ok"
            /\ DOMAIN res.msg.f.roles = {val(k) : k \in DOMAIN roles}

\* the fixed fields of each class: attribute name and position in the wire
\* array (position 1 holds the type code)
FixedFields(cls) ==
  {<<"session", 2>>} \cup
  CASE cls = "Hello" -> {<<"realm", 3>>}
    [] cls = "Goodbye" -> {}
    [] cls = "Heartbeat" -> {<<"incoming", 3>>, <<"outgoing", 4>>}
    [] cls = "Error" -> {<<"request_type", 3>>, <<"request", 4>>, <<"error", 6>>}
    [] cls \in {"Publish", "Subscribe"} -> {<<"request", 3>>, <<"topic", 5>>}
    [] cls \in {"Call", "Register"} -> {<<"request", 3>>, <<"procedure", 5>>}
    [] cls = "Published" -> {<<"request", 3>>, <<"publication", 4>>}
    [] cls \in {"Subscribed", "Unsubscribe"} -> {<<"request", 3>>, <<"subscription", 4>>}
    [] cls \in {"Registered", "Unregister", "Invocation"}
         -> {<<"request", 3>>, <<"registration", 4>>}
    [] cls = "Event" -> {<<"subscription", 3>>, <<"publication", 4>>}
    [] OTHER -> {<<"request", 3>>}

\* C16: parse of a valid wire array returns a message, and each fixed field
\* of a message that parse returns equals the wire element at the field's
\* position; in particular for Unsubscribe, [34, s, r, sub].
C16_FixedFields ==
  Parsed =>
    /\ (wmsg = GoodWire(ClassOf(wmsg), Len(wmsg)) /\ Len(wmsg) \in AllowedLengths(ClassOf(wmsg)))
         => res.kind = "ok"
    /\ res.kind = "ok" =>
         \A fp \in FixedFields(ClassOf(wmsg)) : res.msg.f[fp[1]] = wmsg[fp[2]]

\* the wire array w is valid everywhere except possibly at its trailing args
\* and kwargs elements
ValidUpToPayload(w) ==
  /\ ClassOf(w) \in PayloadClasses /\ Len(w) \in AllowedLengths(ClassOf(w))
  /\ \A p \in 1..Len(w) :
       p \notin {ArgsPos(ClassOf(w)), KwargsPos(ClassOf(w))}
         => w[p] = GoodWire(ClassOf(w), Len(w))[p]

\* C17: with all other fields valid, parse of a payload-carrying class
\* succeeds if and only if the trailing args element, when present, is a list
\* and the trailing kwargs element, when present, is a mapping, whatever they
\* contain (an empty args followed by a non-empty kwargs included); otherwise
\* it raises ProtocolError.  Mappings with a key that is not a string are
\* left out of the statement.
C17_PayloadTypes ==
  (/\ Parsed /\ ValidUpToPayload(wmsg)
   /\ Len(wmsg) >= KwargsPos(ClassOf(wmsg)) /\ type(wmsg[KwargsPos(ClassOf(wmsg))]) = "dict"
        => StringKeyed(wmsg[KwargsPos(ClassOf(wmsg))])) =>
     IF /\ Len(wmsg) >= ArgsPos(ClassOf(wmsg)) => type(wmsg[ArgsPos(ClassOf(wmsg))]) = "list"
        /\ Len(wmsg) >= KwargsPos(ClassOf(wmsg)) => type(wmsg[KwargsPos(ClassOf(wmsg))]) = "dict"
       THEN res.kind = "ok"
     ELSE res.kind = PE

\* the identifier-typed attributes of a message of class cls: single
\* identifiers, and lists of identifiers
IdOptions(cls) ==
  CASE cls = "Event" -> {"publisher"}
    [] cls = "Invocation" -> {"caller"}
    [] OTHER -> {}
IdListOptions(cls) ==
  CASE cls = "Publish" -> {"exclude", "eligible"}
    [] cls = "Register" -> {"pkeys"}
    [] OTHER -> {}

\* C18: in a message that parse returns, Event 'publisher', Invocation
\* 'caller' and each element of Publish 'exclude', Publish 'eligible' and
\* Register 'pkeys' is, when given, an identifier in 0 .. 2^53.
C18_IdOptionsInRange ==
  (Parsed /\ res.kind = "ok") =>
     /\ \A a \in IdOptions(res.msg.cls) :
          res.msg.f[a] = PyNone \/ InIdRange(res.msg.f[a])
     /\ \A a \in IdListOptions(res.msg.cls) :
          res.msg.f[a] = PyNone
            \/ \A i \in 1..Len(val(res.msg.f[a])) : InIdRange(val(res.msg.f[a])[i])

\* the type codes of the request messages: Subscribe, Unsubscribe, Publish,
\* Register, Unregister, Call, Invocation
RequestTypeCodes == {PyInt(32), PyInt(34), PyInt(16), PyInt(64), PyInt(66), PyInt(48), PyInt(68)}

Modes(cls) ==
  IF cls = "Cancel" THEN {PyStr("skip"), PyStr("abort"), PyStr("kill")}
  ELSE {PyStr("abort"), PyStr("kill")}

NonNegative(v) == IsInteger(v) /\ val(v)[1] >= 0
Positive(v) == IsInteger(v) /\ (val(v)[1] > 0 \/ (val(v)[1] = 0 /\ val(v)[2] > 0))

\* C22: with a valid session and, when present, a string discard,
\* Heartbeat.parse returns a message exactly when incoming is an integer
\* >= 0 and outgoing an integer > 0, and raises ProtocolError otherwise.
C22_HeartbeatCounters ==
  (/\ Parsed /\ ClassOf(wmsg) = "Heartbeat" /\ Len(wmsg) \in {4, 5}
   /\ InIdRange(wmsg[2]) /\ (Len(wmsg) = 5 => IsString(wmsg[5]))) =>
     IF NonNegative(wmsg[3]) /\ Positive(wmsg[4])
       THEN /\ res.kind = "ok"
            /\ res.msg.f.incoming = wmsg[3] /\ res.msg.f.outgoing = wmsg[4]
     ELSE res.kind = PE

\* [3, 1, -1, 1] is rejected
C22_Witness ==
  /\ Parsed /\ wmsg = <<PyInt(3), I1, INeg, I1>> /\ res.kind = PE

----------------------------------------------------------------------------
(* The order of the checks of parse *)

\* the parts of a wire array that parse checks: <<k, "">> is the element at
\* source index k, <<k, key>> the entry under a recognized key of the
\* options / details mapping at source index k
Parts(w) ==
  {<<k, "">> : k \in 1..(Len(w) - 1)} \cup
  (IF HasExtra(w)
     THEN {<<ExtraPos(ClassOf(w)) - 1, val(k)>> :
             k \in {j \in DOMAIN val(w[ExtraPos(ClassOf(w))]) :
                      IsString(j) /\ val(j) \in OptionKeys(ClassOf(w))}}
   ELSE {})

\* the valid wire array of w's class and length with the one part taken from w
Isolated(w, part) ==
  LET cls == ClassOf(w)
      g == GoodWire(cls, Len(w))
  IN  IF part[2] = "" THEN [g EXCEPT ![part[1] + 1] = w[part[1] + 1]]
      ELSE [g EXCEPT ![part[1] + 1] =
              PyDict((PyStr(part[2]) :> get(w[part[1] + 1], part[2])) @@ val(g[part[1] + 1]))]

\* the part is invalid by itself: parse of the array that is valid everywhere
\* else fails at this part
PartFails(w, part) ==
  LET r == parse(ClassOf(w), Isolated(w, part))
  IN  r.kind # "ok" /\ r.at = part[1] /\ r.key = part[2]

Before(r1, r2) == r1[1] < r2[1] \/ (r1[1] = r2[1] /\ r1[2] < r2[2])

IsPayloadPos(cls, k) == k <= Len(Fields(cls)) /\ Fields(cls)[k] \in {"args", "kwargs"}

\* the order as stated: length, fixed fields by position, recognized entries,
\* trailing args and kwargs
StatedRank(cls, part) ==
  IF part[1] = 0 THEN <<0, 0>>
  ELSE IF part[2] # "" THEN <<2, 0>>
  ELSE IF IsPayloadPos(cls, part[1]) THEN <<3, part[1]>>
  ELSE <<1, part[1]>>

\* the order of the source: length, fixed fields by position, trailing args
\* and kwargs, recognized entries
SourceRank(cls, part) ==
  IF part[1] = 0 THEN <<0, 0>>
  ELSE IF part[2] # "" THEN <<3, 0>>
  ELSE IF IsPayloadPos(cls, part[1]) THEN <<2, part[1]>>
  ELSE <<1, part[1]>>

----------------------------------------------------------------------------
(* Further properties of the cache *)

\* C24: serialize() and uncache() on one instance leave the cache of every
\* other instance as it was: no entry added, changed or removed, also when
\* the instances have equal field values and the same serializer is used.
C24_InstanceScoped ==
  [][\A b \in Instances :
       (last'.op \in {"serialize", "uncache"} /\ last'.m # b) =>
          inst'[b]._serialized = inst[b]._serialized]_vars

C24_Witness ==
  /\ last.op = "serialize" /\ last.m = "A" /\ last.s = "json" /\ last.computed /\ ~last.raised
  /\ inst["A"].msg = inst["B"].msg
  /\ DOMAIN inst["A"]._serialized = {"json"}
  /\ DOMAIN inst["B"]._serialized = {"msgpack"}

\* C25: on an instance whose fields were never assigned, every serialize(s)
\* returns s.serialize(marshal()), and the cache holds an entry exactly for
\* the serializers passed to serialize since construction or the last
\* uncache(); a new instance has an empty cache.
C25_CacheFollowsCalls ==
  /\ \A m \in Instances : ~touched[m] =>
       /\ DOMAIN inst[m]._serialized = DOMAIN first[m]
       /\ \A s \in DOMAIN inst[m]._serialized :
            inst[m]._serialized[s] = Ser(s, marshal(inst[m].msg))
  /\ (last.op = "serialize" /\ ~touched[last.m]) =>
       /\ ~last.raised
       /\ last.ret = Ser(last.s, marshal(inst[last.m].msg))
  /\ (ops = 0 /\ \A t \in Threads : frame[t].calls = 0) =>
       \A m \in Instances : inst[m]._serialized = EmptyMap

C25_Witness ==
  /\ last.op = "serialize" /\ ~touched[last.m] /\ ~last.computed
  /\ nMarshal[last.m][last.s] = 2
  /\ DOMAIN inst[last.m]._serialized = {last.s}

\* C26: a serialize(s) that succeeds returns the bytes of the fields the
\* instance had at the first serialize(s) since construction or the last
\* uncache(): assignments to fields after that call do not show until
\* uncache() is called, and the first serialize(s) after uncache() returns
\* the bytes of the current fields.
C26_StaleUntilUncache ==
  (last.op = "serialize" /\ ~last.raised) =>
     /\ last.s \in DOMAIN snap[last.m]
     /\ last.ret = Ser(last.s, marshal(snap[last.m][last.s]))
     /\ ~last.before => snap[last.m][last.s] = inst[last.m].msg

C26_Witness ==
  /\ last.op = "serialize" /\ last.before /\ ~last.raised
  /\ snap[last.m][last.s] # inst[last.m].msg
  /\ last.ret # Ser(last.s, marshal(inst[last.m].msg))
  /\ nMarshal[last.m][last.s] = 2

\* C27: when marshal() or serializer.serialize raises inside serialize(s),
\* the cache is as it was before the call: it has no entry for s, the
\* entries of the other serializers are kept, and a serialize(s) that finds
\* no entry for s evaluates the computation (again).
C27_FailureLeavesCache ==
  /\ (last.op = "serialize" /\ last.raised) =>
       /\ inst[last.m]._serialized = last.prior
       /\ last.s \notin DOMAIN inst[last.m]._serialized
  /\ (last.op = "serialize" /\ last.s \notin DOMAIN last.prior) => last.computed

C27_Witness ==
  /\ last.op = "serialize" /\ last.raised /\ last.computed
  /\ nMarshal[last.m][last.s] = 2
  /\ DOMAIN inst[last.m]._serialized = Serializers \ {last.s}

----------------------------------------------------------------------------
(* Shape of marshal's output and idempotence of the normalisation *)

\* parse of class cls does not reject w for its length
LengthAccepted(cls, w) ==
  LET r == parse(cls, w) IN ~(r.kind # "ok" /\ r.at = 0)

\* C28: the wire array marshal returns for a message, built by a
\* constructor or by parse, starts with the type code of the message's
\* class and has a length that parse of the same class accepts; the type
\* codes of the 21 classes are pairwise distinct.
C28_MarshalHeadAndLength ==
  /\ Marshalled =>
       /\ Len(out) >= 1 /\ out[1] = Code(res.msg.cls)
       /\ Len(out) \in AllowedLengths(res.msg.cls)
       /\ LengthAccepted(res.msg.cls, out)
  /\ Cardinality(Classes) = 21
  /\ Cardinality({MESSAGE_TYPE(c) : c \in Classes}) = 21

C28_Witness ==
  /\ Marshalled /\ origin = "ctor" /\ res.msg.cls = "Result"
  /\ ~Truthy(res.msg.f.args) /\ ~Truthy(res.msg.f.kwargs) /\ res.msg.f.progress # PyNone
  /\ Len(out) = 4 /\ out[1] = Code("Result")

\* C29: for a wire array x that parse accepts, y = marshal(parse(x)) is
\* accepted by parse and marshal(parse(y)) = y.
C29_NormaliseIdempotent ==
  (Parsed /\ pc = "reparsed") =>
     /\ res2.kind = "ok"
     /\ marshal(res2.msg) = out

C29_Witness ==
  /\ Parsed /\ pc = "reparsed" /\ out # wmsg
  /\ res.msg.cls = "Call" /\ Len(wmsg) = 7 /\ Len(out) = 5
  /\ res2.kind = "ok" /\ marshal(res2.msg) = out

============================================================================
